---- MODULE Spec2Model ----
(***************************************************************************)
(* Lorica: an authenticating CORS proxy for the Summon API.                *)
(*                                                                         *)
(* The model follows one inbound request through the handler chain that    *)
(* main() registers: the tollbooth rate-limit middleware (when enabled)    *)
(* wrapping proxyHandler, which is the CORS gate, the request signer and   *)
(* the upstream forwarder.  The limiter's buckets persist across requests. *)
(*                                                                         *)
(* Requests are served one after the other: the handlers share nothing    *)
(* but the limiter's buckets, and every bucket state a concurrent request  *)
(* could leave behind is also left behind by an earlier one.               *)
(*                                                                         *)
(* Strings whose inner structure the code inspects (the Origin header, the *)
(* allowed-origins option, the raw query) are sequences of one-character   *)
(* strings; strings the code only compares or copies are TLA+ strings.     *)
(***************************************************************************)
EXTENDS Integers, Sequences, FiniteSets, TLC

VARIABLES
    flags,            \* the parsed command-line flags, fixed once main() serves
    clock,            \* wall clock, in seconds
    buckets,          \* the limiter's token buckets, by client key
    pc,               \* position of the request in the handler chain
    req,              \* the inbound request
    resp,             \* the http.ResponseWriter: status, headers, body
    out,              \* the outbound API request, once built
    outcome,          \* terminal outcome of the request
    stages,           \* pipeline stages run for the request, in order
    consumed,         \* tokens the request took from its bucket
    upstreamCalls,    \* upstream requests issued for the request
    apiResp,          \* the upstream response, once client.Do returned one
    args,             \* os.Args: the value given to each flag on the command line
    environ,          \* the environment: variable name -> value
    actual,           \* flag.CommandLine's record of the flags that were set
    listOfUnsetFlags, \* the flags the environment may still set
    logMessageLevel,  \* package loglevel: the level given to Set
    logOutput,        \* the lines package log has written
    logCall           \* the last call made to package loglevel, with its result

\* The state of the start of the process, and of its logger.
process == << args, environ, actual, listOfUnsetFlags >>
logger == << logMessageLevel, logOutput, logCall >>

vars == << flags, clock, buckets, pc, req, resp, out, outcome, stages,
           consumed, upstreamCalls, apiResp, process, logger >>

-----------------------------------------------------------------------------
(* Bounds of the model *)

MaxClock == 2

-----------------------------------------------------------------------------
(* Program constants *)

DefaultMaxAge == "604800"
DefaultMaxRequestsPerSecond == 1
DefaultSummonAPIHost == "api.summon.serialssolutions.com"
DefaultSummonAPITimeout == 10

StatusOK == 200
StatusBadRequest == 400
StatusMethodNotAllowed == 405
StatusTooManyRequests == 429
StatusInternalServerError == 500

ACAO == "Access-Control-Allow-Origin"
ACAM == "Access-Control-Allow-Methods"
ACAH == "Access-Control-Allow-Headers"
ACMA == "Access-Control-Max-Age"
ContentType == "Content-Type"

\* The error messages, in the pieces the code concatenates.
MsgMethodNotSet ==
    << "Access-Control-Request-Method header ",
       "should be set for OPTIONS request." >>
MsgMethodNotGet ==
    << "Access-Control-Request-Method header ", "should only be GET." >>
MsgHeaderNotSession ==
    << "Access-Control-Request-Header header ",
       "should only contain x-summon-session-id." >>
MsgOnlyGet == << "Only GET requests accepted." >>
MsgParseFailed == << "Unable to parse API URL." >>
MsgBuildFailed == << "Unable to build API Request." >>
\* The message with the secret key in it.
MsgSendFailed_WithKey(err) ==
    << "Error sending API Request: ", err, " key ", flags.secretkey >>

MsgSendFailed(err) == << "Error sending API Request: ", err >>

-----------------------------------------------------------------------------
(* strings.Split, strings.TrimSpace over character sequences *)

FirstIndex(s, c) ==
    IF \E i \in 1..Len(s) : s[i] = c
    THEN CHOOSE i \in 1..Len(s) : s[i] = c /\ \A j \in 1..(i-1) : s[j] # c
    ELSE 0

RECURSIVE Split(_, _)
Split(s, sep) ==
    LET i == FirstIndex(s, sep)
    IN  IF i = 0 THEN << s >>
        ELSE << SubSeq(s, 1, i-1) >> \o Split(SubSeq(s, i+1, Len(s)), sep)

RECURSIVE TrimLeft(_)
TrimLeft(s) ==
    IF s # << >> /\ Head(s) = " " THEN TrimLeft(Tail(s)) ELSE s

RECURSIVE TrimRight(_)
TrimRight(s) ==
    IF s # << >> /\ s[Len(s)] = " " THEN TrimRight(SubSeq(s, 1, Len(s)-1)) ELSE s

TrimSpace(s) == TrimRight(TrimLeft(s))

-----------------------------------------------------------------------------
(* http.Header of the response: header name -> list of values *)

SetCookie == "Set-Cookie"

RespHeaderNames == { ACAO, ACAM, ACAH, ACMA, ContentType, SetCookie }

NoHeaders == [ n \in RespHeaderNames |-> << >> ]

HeaderSet(h, name, value) == [ h EXCEPT ![name] = << value >> ]

HeaderAdd(h, name, value) == [ h EXCEPT ![name] = Append(@, value) ]

NewRecorder == [ status |-> 0, writes |-> 0, headers |-> NoHeaders, body |-> << >> ]

\* ResponseWriter.WriteHeader: the first call fixes the status.
WriteHeader(w, code) ==
    [ w EXCEPT !.status = IF w.writes = 0 THEN code ELSE @,
               !.writes = @ + 1 ]

\* net/http's bodyAllowedForStatus: an informational, a 204 and a 304
\* response have no body.
bodyAllowedForStatus(status) ==
    ~ (status \in 100 .. 199 \/ status = 204 \/ status = 304)

\* ResponseWriter.Write: writes the 200 status if none was written; the bytes
\* are dropped (http.ErrBodyNotAllowed) when the status allows no body.
Write(w, bytes) ==
    LET w1 == IF w.writes = 0 THEN WriteHeader(w, StatusOK) ELSE w
    IN  IF bodyAllowedForStatus(w1.status)
        THEN [ w1 EXCEPT !.body = @ \o bytes ]
        ELSE w1

Itoa(code) ==
    CASE code = 200 -> "200"
      [] code = 204 -> "204"
      [] code = 304 -> "304"
      [] code = 400 -> "400"
      [] code = 404 -> "404"
      [] code = 405 -> "405"
      [] code = 429 -> "429"
      [] code = 500 -> "500"
      [] code = 503 -> "503"
      [] code = 599 -> "599"

StatusText(code) ==
    CASE code = 200 -> "OK"
      [] code = 204 -> "No Content"
      [] code = 304 -> "Not Modified"
      [] code = 400 -> "Bad Request"
      [] code = 404 -> "Not Found"
      [] code = 405 -> "Method Not Allowed"
      [] code = 429 -> "Too Many Requests"
      [] code = 500 -> "Internal Server Error"
      [] code = 503 -> "Service Unavailable"
      [] OTHER -> ""

\* sendError writing the body before the status.
sendError_BodyFirst(w, statuscode, message) ==
    LET w1 == [ w EXCEPT !.headers =
                    HeaderSet(@, ContentType, "text/html; charset=utf-8") ]
        w2 == Write(w1, << "<html><head></head><body><pre>", Itoa(statuscode), " ",
                           StatusText(statuscode), " - " >>
                        \o message \o << "</pre></body></html>" >>)
    IN  WriteHeader(w2, statuscode)

\* sendError leaving the message out of the page.
sendError_StatusOnly(w, statuscode, message) ==
    LET w1 == [ w EXCEPT !.headers =
                    HeaderSet(@, ContentType, "text/html; charset=utf-8") ]
        w2 == WriteHeader(w1, statuscode)
    IN  Write(w2, << "<html><head></head><body><pre>", Itoa(statuscode), " ",
                     StatusText(statuscode), "</pre></body></html>" >>)

sendError(w, statuscode, message) ==
    LET w1 == [ w EXCEPT !.headers =
                    HeaderSet(@, ContentType, "text/html; charset=utf-8") ]
        w2 == WriteHeader(w1, statuscode)
    IN  Write(w2, << "<html><head></head><body><pre>", Itoa(statuscode), " ",
                     StatusText(statuscode), " - " >>
                  \o message \o << "</pre></body></html>" >>)

-----------------------------------------------------------------------------
(* setACAOHeader *)

RECURSIVE FirstMatch_NoTrim(_, _)
\* FirstMatch comparing the entries as they are split, without TrimSpace.
FirstMatch_NoTrim(possibleOrigins, origin) ==
    IF possibleOrigins = << >> THEN << >>
    ELSE LET okOrigin == Head(possibleOrigins)
         IN  IF okOrigin # << >> /\ okOrigin = origin
             THEN << okOrigin >>
             ELSE FirstMatch_NoTrim(Tail(possibleOrigins), origin)

RECURSIVE FirstMatch(_, _)
\* The loop over possibleOrigins: the first trimmed, non-empty entry equal to
\* the Origin header, or << >> when the loop ends without a match.
FirstMatch(possibleOrigins, origin) ==
    IF possibleOrigins = << >> THEN << >>
    ELSE LET okOrigin == TrimSpace(Head(possibleOrigins))
         IN  IF okOrigin # << >> /\ okOrigin = origin
             THEN << okOrigin >>
             ELSE FirstMatch(Tail(possibleOrigins), origin)

\* setACAOHeader answering the wildcard list with the Origin it was sent.
setACAOHeader_EchoOrigin(h, r, allowed) ==
    IF allowed = << "*" >>
    THEN HeaderSet(h, ACAO, r.origin)
    ELSE IF allowed # << >>
         THEN LET m == FirstMatch(Split(allowed, ";"), r.origin)
              IN  IF m # << >> THEN HeaderSet(h, ACAO, m[1]) ELSE h
         ELSE h

\* setACAOHeader answering with the first entry of the list, whoever asks.
setACAOHeader_FirstEntry(h, r, allowed) ==
    IF allowed = << "*" >>
    THEN HeaderSet(h, ACAO, << "*" >>)
    ELSE IF allowed # << >> /\ TrimSpace(Head(Split(allowed, ";"))) # << >>
         THEN HeaderSet(h, ACAO, TrimSpace(Head(Split(allowed, ";"))))
         ELSE h

setACAOHeader(h, r, allowed) ==
    IF allowed = << "*" >>
    THEN HeaderSet(h, ACAO, << "*" >>)
    ELSE IF allowed # << >>
         THEN LET m == FirstMatch(Split(allowed, ";"), r.origin)
              IN  IF m # << >> THEN HeaderSet(h, ACAO, m[1]) ELSE h
         ELSE h

-----------------------------------------------------------------------------
(* url.Values of the API request URL, and buildHeader *)

\* The ASCII characters from the space (32) to the underscore (95), and
\* from the letter a (97) to the tilde (126).
AsciiFrom32 ==
    << " ", "!", "\"", "#", "$", "%", "&", "'", "(", ")", "*", "+", ",",
       "-", ".", "/", "0", "1", "2", "3", "4", "5", "6", "7", "8", "9",
       ":", ";", "<", "=", ">", "?", "@", "A", "B", "C", "D", "E", "F",
       "G", "H", "I", "J", "K", "L", "M", "N", "O", "P", "Q", "R", "S",
       "T", "U", "V", "W", "X", "Y", "Z", "[", "\\", "]", "^", "_" >>

AsciiFrom97 ==
    << "a", "b", "c", "d", "e", "f", "g", "h", "i", "j", "k", "l", "m",
       "n", "o", "p", "q", "r", "s", "t", "u", "v", "w", "x", "y", "z",
       "{", "|", "}", "~" >>

OrdTable ==
    [ c \in { AsciiFrom32[i] : i \in 1..Len(AsciiFrom32) }
             \cup { AsciiFrom97[i] : i \in 1..Len(AsciiFrom97) } |->
        IF \E i \in 1..Len(AsciiFrom32) : AsciiFrom32[i] = c
        THEN 31 + CHOOSE i \in 1..Len(AsciiFrom32) : AsciiFrom32[i] = c
        ELSE 96 + CHOOSE i \in 1..Len(AsciiFrom97) : AsciiFrom97[i] = c ]

\* Byte value of a character of a string.
Ord(c) == IF c = "\n" THEN 10 ELSE OrdTable[c]

HexDigits == { "0", "1", "2", "3", "4", "5", "6", "7", "8", "9",
               "a", "b", "c", "d", "e", "f", "A", "B", "C", "D", "E", "F" }

\* The byte a %xy escape stands for.
Unhex(x, y) ==
    CASE x = "2" /\ y = "0" -> " "
      [] x = "2" /\ y = "6" -> "&"
      [] x = "2" /\ y = "B" -> "+"
      [] x = "3" /\ y = "D" -> "="
      [] OTHER -> "?"

RECURSIVE QueryUnescape(_)
\* url.QueryUnescape: '+' becomes a space, %xy a byte; a malformed escape is
\* an error.
QueryUnescape(s) ==
    IF s = << >> THEN [ ok |-> TRUE, val |-> << >> ]
    ELSE IF Head(s) = "%"
    THEN IF Len(s) < 3 \/ s[2] \notin HexDigits \/ s[3] \notin HexDigits
         THEN [ ok |-> FALSE, val |-> << >> ]
         ELSE LET rest == QueryUnescape(SubSeq(s, 4, Len(s)))
              IN  [ ok |-> rest.ok, val |-> << Unhex(s[2], s[3]) >> \o rest.val ]
    ELSE LET rest == QueryUnescape(Tail(s))
         IN  [ ok |-> rest.ok,
               val |-> << IF Head(s) = "+" THEN " " ELSE Head(s) >> \o rest.val ]

RECURSIVE ParseSegments(_)
\* url.ParseQuery over the '&'-separated segments: empty segments and
\* segments that fail to unescape are dropped; the others give (key, value).
ParseSegments(segs) ==
    IF segs = << >> THEN << >>
    ELSE LET seg  == Head(segs)
             i    == FirstIndex(seg, "=")
             rawK == IF i = 0 THEN seg ELSE SubSeq(seg, 1, i-1)
             rawV == IF i = 0 THEN << >> ELSE SubSeq(seg, i+1, Len(seg))
             k    == QueryUnescape(rawK)
             v    == QueryUnescape(rawV)
             rest == ParseSegments(Tail(segs))
         IN  IF seg = << >> \/ ~k.ok \/ ~v.ok THEN rest
             ELSE << << k.val, v.val >> >> \o rest

Query(rawQuery) == ParseSegments(Split(rawQuery, "&"))

RECURSIVE StrLess(_, _)
\* Byte-wise lexicographic order of Go strings.
StrLess(a, b) ==
    IF b = << >> THEN FALSE
    ELSE IF a = << >> THEN TRUE
    ELSE IF Ord(Head(a)) # Ord(Head(b)) THEN Ord(Head(a)) < Ord(Head(b))
    ELSE StrLess(Tail(a), Tail(b))

RECURSIVE Insert(_, _)
Insert(x, sorted) ==
    IF sorted = << >> THEN << x >>
    ELSE IF StrLess(x, Head(sorted)) THEN << x >> \o sorted
    ELSE << Head(sorted) >> \o Insert(x, Tail(sorted))

\* SortStrings leaving the list in the order it was built.
SortStrings_Unsorted(l) == l

RECURSIVE SortStrings(_)
SortStrings(l) ==
    IF l = << >> THEN << >> ELSE Insert(Head(l), SortStrings(Tail(l)))

RECURSIVE Join(_, _)
Join(l, sep) ==
    IF l = << >> THEN << >>
    ELSE IF Len(l) = 1 THEN l[1]
    ELSE l[1] \o << sep >> \o Join(Tail(l), sep)

\* The orders in which a range over the url.Values map may visit its keys:
\* Go leaves the order unspecified, so every permutation of the keys.
KeyOrders(values) ==
    LET keys == { values[i][1] : i \in 1..Len(values) }
    IN  { order \in [ 1..Cardinality(keys) -> keys ] :
              \A k \in keys : \E i \in 1..Cardinality(keys) : order[i] = k }

\* key+"="+value for every pair of a list of pairs.
QueryStrings(values) ==
    [ i \in 1..Len(values) |-> values[i][1] \o << "=" >> \o values[i][2] ]

RECURSIVE RangeQuery(_, _)
\* queryStrings as the two loops append to it: the keys in the order of the
\* range, the values of one key in the order they were received.
RangeQuery(values, order) ==
    IF order = << >> THEN << >>
    ELSE QueryStrings(SelectSeq(values, LAMBDA p : p[1] = Head(order)))
             \o RangeQuery(values, Tail(order))

\* base64(HMAC-SHA1(key, message)), kept as a term in the key and the pieces
\* of the message; EncodedHeader below computes its bytes.
HmacSha1Base64(key, message) == << "hmac-sha1", key, message >>

\* buildHeader with the timestamp ahead of the accept value.
buildHeader_TimestampFirst(apiRequestURL, accept, timestampRFC2616, accessID, secretKey, order) ==
    LET queryStrings == RangeQuery(Query(apiRequestURL.rawQuery), order)
        sortedQuery == Join(SortStrings(queryStrings), "&")
        idString == << timestampRFC2616, "\n", accept, "\n", apiRequestURL.host, "\n",
                       apiRequestURL.path, "\n", sortedQuery, "\n" >>
    IN  << "Summon ", accessID, ";", HmacSha1Base64(secretKey, idString) >>

\* buildHeader leaving the path out of the string it hashes.
buildHeader_NoPath(apiRequestURL, accept, timestampRFC2616, accessID, secretKey, order) ==
    LET queryStrings == RangeQuery(Query(apiRequestURL.rawQuery), order)
        sortedQuery == Join(SortStrings(queryStrings), "&")
        idString == << accept, "\n", timestampRFC2616, "\n", apiRequestURL.host, "\n",
                       "", "\n", sortedQuery, "\n" >>
    IN  << "Summon ", accessID, ";", HmacSha1Base64(secretKey, idString) >>

\* buildHeader reading the clock itself, a second after its caller did.
buildHeader_OwnTimestamp(apiRequestURL, accept, timestampRFC2616, accessID, secretKey, order) ==
    LET queryStrings == RangeQuery(Query(apiRequestURL.rawQuery), order)
        sortedQuery == Join(SortStrings(queryStrings), "&")
        idString == << accept, "\n", << "GMT", timestampRFC2616[2] + 1 >>, "\n",
                       apiRequestURL.host, "\n", apiRequestURL.path, "\n",
                       sortedQuery, "\n" >>
    IN  << "Summon ", accessID, ";", HmacSha1Base64(secretKey, idString) >>

\* order is the order in which the range visits the keys of the query.
buildHeader(apiRequestURL, accept, timestampRFC2616, accessID, secretKey, order) ==
    LET queryStrings == RangeQuery(Query(apiRequestURL.rawQuery), order)
        sortedQuery == Join(SortStrings(queryStrings), "&")
        idString == << accept, "\n", timestampRFC2616, "\n", apiRequestURL.host, "\n",
                       apiRequestURL.path, "\n", sortedQuery, "\n" >>
    IN  << "Summon ", accessID, ";", HmacSha1Base64(secretKey, idString) >>

-----------------------------------------------------------------------------
(* crypto/sha1, crypto/hmac and encoding/base64 over sequences of bytes.   *)
(* A 32-bit word is the pair << high, low >> of its 16-bit halves.         *)

RECURSIVE XorBits(_, _, _)
\* Exclusive or of two n-bit numbers, n a power of two, by halves.
XorBits(a, b, n) ==
    IF n = 1 THEN (a + b) % 2
    ELSE LET half == 2^(n \div 2)
         IN  (XorBits(a \div half, b \div half, n \div 2) * half)
                 + XorBits(a % half, b % half, n \div 2)

RECURSIVE AndBits(_, _, _)
AndBits(a, b, n) ==
    IF n = 1 THEN a * b
    ELSE LET half == 2^(n \div 2)
         IN  (AndBits(a \div half, b \div half, n \div 2) * half)
                 + AndBits(a % half, b % half, n \div 2)

Xor16(a, b) == XorBits(a, b, 16)

And16(a, b) == AndBits(a, b, 16)

Or16(a, b) == a + b - And16(a, b)

Not16(a) == 65535 - a

Xor32(v, w) == << Xor16(v[1], w[1]), Xor16(v[2], w[2]) >>

And32(v, w) == << And16(v[1], w[1]), And16(v[2], w[2]) >>

Or32(v, w) == << Or16(v[1], w[1]), Or16(v[2], w[2]) >>

Not32(v) == << Not16(v[1]), Not16(v[2]) >>

\* Addition modulo 2^32.
Add32(v, w) ==
    LET lo == v[2] + w[2]
        hi == v[1] + w[1] + (lo \div 65536)
    IN  << hi % 65536, lo % 65536 >>

\* The sum modulo 2^32 of the five words of a round.
Sum32(a, b, c, d, e) ==
    LET lo == a[2] + b[2] + c[2] + d[2] + e[2]
        hi == a[1] + b[1] + c[1] + d[1] + e[1] + (lo \div 65536)
    IN  << hi % 65536, lo % 65536 >>

\* Rotation to the left by n bits, 0 < n < 32.
Rotl(v, n) ==
    LET u == IF n < 16 THEN v ELSE << v[2], v[1] >>
        k == IF n < 16 THEN n ELSE n - 16
    IN  << ((u[1] * 2^k) % 65536) + (u[2] \div 2^(16 - k)),
           ((u[2] * 2^k) % 65536) + (u[1] \div 2^(16 - k)) >>

RECURSIVE Schedule(_, _)
\* The message schedule w extended by n words, as two halves so that the
\* evaluation does not nest n deep.
Schedule(w, n) ==
    IF n = 0 THEN w
    ELSE IF n = 1
    THEN LET t == Len(w) + 1
         IN  Append(w, Rotl(Xor32(Xor32(w[t-3], w[t-8]),
                                  Xor32(w[t-14], w[t-16])), 1))
    ELSE LET w1 == Schedule(w, n \div 2)
         IN  IF w1 # w1 THEN w1 ELSE Schedule(w1, n - (n \div 2))

Sha1F(t, b, c, d) ==
    IF t < 20 THEN Or32(And32(b, c), And32(Not32(b), d))
    ELSE IF t < 40 THEN Xor32(Xor32(b, c), d)
    ELSE IF t < 60 THEN Or32(Or32(And32(b, c), And32(b, d)), And32(c, d))
    ELSE Xor32(Xor32(b, c), d)

\* 5A827999, 6ED9EBA1, 8F1BBCDC, CA62C1D6
Sha1K(t) ==
    IF t < 20 THEN << 23170, 31129 >>
    ELSE IF t < 40 THEN << 28377, 60321 >>
    ELSE IF t < 60 THEN << 36635, 48348 >>
    ELSE << 51810, 49622 >>

RECURSIVE Rounds(_, _, _, _)
\* The n rounds from round t on, on the working state s = << a, b, c, d, e >>,
\* as two halves so that the evaluation does not nest n deep.
Rounds(t, n, s, w) ==
    IF n = 1
    THEN LET temp == Sum32(Rotl(s[1], 5), Sha1F(t, s[2], s[3], s[4]), s[5],
                          Sha1K(t), w[t+1])
         IN  << temp, s[1], Rotl(s[2], 30), s[3], s[4] >>
    ELSE LET s1 == Rounds(t, n \div 2, s, w)
         IN  IF s1 # s1 THEN s1
             ELSE Rounds(t + (n \div 2), n - (n \div 2), s1, w)

\* 67452301, EFCDAB89, 98BADCFE, 10325476, C3D2E1F0
Sha1Init ==
    << << 26437, 8961 >>, << 61389, 43913 >>, << 39098, 56574 >>,
       << 4146, 21622 >>, << 50130, 57840 >> >>

\* One 64-byte block.  The comparisons w = w, inner = inner and the like put
\* no condition on the result: they have a value computed before the
\* expression that uses it is entered.
Sha1Block(h, block) ==
    LET w == Schedule([ i \in 1..16 |->
                 << block[4*i-3] * 256 + block[4*i-2],
                    block[4*i-1] * 256 + block[4*i] >> ], 64)
        s == IF w = w THEN Rounds(0, 80, h, w) ELSE h
    IN  [ i \in 1..5 |-> Add32(h[i], s[i]) ]

Zeros(n) == [ i \in 1..n |-> 0 ]

\* The message, the byte 0x80, zeros, and the length in bits as 8 bytes
\* (messages here are shorter than 2^21 bytes).
Sha1Pad(m) ==
    LET bits == Len(m) * 8
    IN  m \o << 128 >> \o Zeros((119 - (Len(m) % 64)) % 64) \o Zeros(5)
          \o << bits \div 65536, (bits \div 256) % 256, bits % 256 >>

RECURSIVE Sha1Blocks(_, _)
Sha1Blocks(h, m) ==
    IF m = << >> \/ h # h THEN h
    ELSE Sha1Blocks(Sha1Block(h, SubSeq(m, 1, 64)), SubSeq(m, 65, Len(m)))

\* sha1.Sum: the 20 bytes of the digest.
Sha1Sum(m) ==
    LET padded == Sha1Pad(m)
        h == IF padded = padded THEN Sha1Blocks(Sha1Init, padded) ELSE Sha1Init
    IN  [ i \in 1..20 |->
            LET half == h[(i + 3) \div 4][IF (i - 1) % 4 < 2 THEN 1 ELSE 2]
            IN  IF i % 2 = 1 THEN half \div 256 ELSE half % 256 ]

\* hmac.New(sha1.New, key) over the message m, for keys of at most 64 bytes.
HmacSha1(key, m) ==
    LET k == key \o Zeros(64 - Len(key))
        ipad == [ i \in 1..64 |-> Xor16(k[i], 54) ]
        opad == [ i \in 1..64 |-> Xor16(k[i], 92) ]
        inner == Sha1Sum(ipad \o m)
    IN  IF m = m /\ inner = inner THEN Sha1Sum(opad \o inner) ELSE inner

Base64Alphabet ==
    << "A", "B", "C", "D", "E", "F", "G", "H", "I", "J", "K", "L", "M",
       "N", "O", "P", "Q", "R", "S", "T", "U", "V", "W", "X", "Y", "Z",
       "a", "b", "c", "d", "e", "f", "g", "h", "i", "j", "k", "l", "m",
       "n", "o", "p", "q", "r", "s", "t", "u", "v", "w", "x", "y", "z",
       "0", "1", "2", "3", "4", "5", "6", "7", "8", "9", "+", "/" >>

RECURSIVE Base64Encode(_)
\* base64.StdEncoding.EncodeToString
Base64Encode(b) ==
    IF b = << >> THEN << >>
    ELSE IF Len(b) = 1
    THEN << Base64Alphabet[(b[1] \div 4) + 1],
            Base64Alphabet[((b[1] % 4) * 16) + 1], "=", "=" >>
    ELSE IF Len(b) = 2
    THEN << Base64Alphabet[(b[1] \div 4) + 1],
            Base64Alphabet[((b[1] % 4) * 16) + (b[2] \div 16) + 1],
            Base64Alphabet[((b[2] % 16) * 4) + 1], "=" >>
    ELSE << Base64Alphabet[(b[1] \div 4) + 1],
            Base64Alphabet[((b[1] % 4) * 16) + (b[2] \div 16) + 1],
            Base64Alphabet[((b[2] % 16) * 4) + (b[3] \div 64) + 1],
            Base64Alphabet[(b[3] % 64) + 1] >>
         \o Base64Encode(SubSeq(b, 4, Len(b)))

\* []byte(s)
Bytes(s) == [ i \in 1..Len(s) |-> Ord(s[i]) ]

\* The text of a header that buildHeader returned for an accessID, a secret
\* key and components given as sequences of characters: the five components
\* of the identification string each followed by a newline, hashed under
\* the key, after "Summon ", the accessID and ";".
EncodedHeader(header) ==
    LET key == header[4][2]
        id == header[4][3]
        idString == id[1] \o << id[2] >> \o id[3] \o << id[4] >> \o id[5]
                        \o << id[6] >> \o id[7] \o << id[8] >> \o id[9]
                        \o << id[10] >>
        sum == IF idString = idString
               THEN HmacSha1(Bytes(key), Bytes(idString)) ELSE << >>
    IN  << "S", "u", "m", "m", "o", "n", " " >> \o header[2] \o << header[3] >>
            \o (IF sum = sum THEN Base64Encode(sum) ELSE << >>)

\* The values of TestBuildHeader, from the Summon API documentation.
VectorURL ==
    [ host |->
        << "a", "p", "i", ".", "s", "u", "m", "m", "o", "n", ".", "s", "e",
           "r", "i", "a", "l", "s", "s", "o", "l", "u", "t", "i", "o", "n",
           "s", ".", "c", "o", "m" >>,
      path |->
        << "/", "2", ".", "0", ".", "0", "/", "s", "e", "a", "r", "c",
           "h" >>,
      rawQuery |->
        << "s", ".", "q", "=", "f", "o", "r", "e", "s", "t", "&", "s", ".",
           "f", "f", "=", "C", "o", "n", "t", "e", "n", "t", "T", "y", "p",
           "e", ",", "o", "r", ",", "1", ",", "1", "5" >> ]

VectorAccept ==
    << "a", "p", "p", "l", "i", "c", "a", "t", "i", "o", "n", "/", "x",
       "m", "l" >>

VectorTimestamp ==
    << "T", "u", "e", ",", " ", "3", "0", " ", "J", "u", "n", " ", "2",
       "0", "0", "9", " ", "1", "2", ":", "1", "0", ":", "2", "4", " ",
       "G", "M", "T" >>

VectorAccessID == << "t", "e", "s", "t" >>

VectorSecretKey ==
    << "e", "d", "2", "e", "e", "2", "e", "0", "-", "6", "5", "c", "1",
       "-", "1", "1", "d", "e", "-", "8", "a", "3", "9", "-", "0", "8",
       "0", "0", "2", "0", "0", "c", "9", "a", "6", "6" >>

VectorGoodHeader ==
    << "S", "u", "m", "m", "o", "n", " ", "t", "e", "s", "t", ";", "3",
       "a", "4", "+", "j", "0", "W", "r", "r", "x", "6", "L", "F", "8",
       "X", "4", "i", "w", "O", "L", "D", "e", "t", "V", "O", "u", "4",
       "=" >>

\* The headers buildHeader returns for these values, one for each order in
\* which the range can visit the keys.
VectorHeaders ==
    { EncodedHeader(buildHeader(VectorURL, VectorAccept, VectorTimestamp,
                                VectorAccessID, VectorSecretKey, order)) :
          order \in KeyOrders(Query(VectorURL.rawQuery)) }

(* net/url and http.NewRequest.  A URL string is a sequence of its parts:
   the scheme, "://", the host and the path, each one string, and after a
   "?" the characters of the query. *)

DefaultSummonAPIURL == << "https", "://", DefaultSummonAPIHost >>

\* url.Parse.  A string that starts with the colon has no scheme and is
\* refused; one without "://" is read as a path.
ParseURL(rawurl) ==
    LET q == FirstIndex(rawurl, "?")
        rest == IF q = 0 THEN rawurl ELSE SubSeq(rawurl, 1, q - 1)
        rawQuery == IF q = 0 THEN << >> ELSE SubSeq(rawurl, q + 1, Len(rawurl))
    IN  IF rest # << >> /\ Head(rest) = "://"
        THEN [ err |-> TRUE, scheme |-> "", host |-> "", path |-> "",
               rawQuery |-> << >> ]
        ELSE IF Len(rest) >= 2 /\ rest[2] = "://"
        THEN [ err |-> FALSE, scheme |-> rest[1],
               host |-> IF Len(rest) >= 3 THEN rest[3] ELSE "",
               path |-> IF Len(rest) >= 4 THEN rest[4] ELSE "",
               rawQuery |-> rawQuery ]
        ELSE [ err |-> FALSE, scheme |-> "", host |-> "",
               path |-> IF rest = << >> THEN "" ELSE rest[1],
               rawQuery |-> rawQuery ]

\* URL.String
URLString(u) ==
    (IF u.scheme # "" THEN << u.scheme, "://", u.host >> ELSE << >>)
        \o (IF u.path # "" THEN << u.path >> ELSE << >>)
        \o (IF u.rawQuery # << >> THEN << "?" >> \o u.rawQuery ELSE << >>)

\* http.NewRequest(method, urlStr, nil)
NewRequest(method, urlStr) ==
    LET u == ParseURL(urlStr)
    IN  [ err |-> u.err, method |-> method, url |-> u ]

\* time.Now().UTC().Format(http.TimeFormat)
TimeFormat(t) == << "GMT", t >>

-----------------------------------------------------------------------------
(* The inbound requests and the upstream responses the model draws from *)

Origins == { << >>, << "a" >>, << "A" >>, << "b" >> }

AllowLists == { << "*" >>, << >>, << "a", ";", " ", "b", ";" >> }

AcrMethods == { "", "GET", "POST", "get" }

AcrHeaderValues == { "", "x-summon-session-id", "bad-news" }

RemoteAddrs == { "10.0.0.1", "10.0.0.2" }

Paths == { "/2.0.0/search", "/2.0.0/search/ping" }

RawQueries == { << >>, << "b", "=", "2", "&", "a", "=", "1" >> }

Accepts == { "", "application/xml" }

SessionIDs == { "", "session-1" }

\* Requests shaped like a preflight, with every combination of the headers
\* the CORS gate reads.
PreflightRequests ==
    [ method : { "OPTIONS" }, origin : Origins,
      acrMethod : AcrMethods, acrHeader : AcrHeaderValues,
      acrHeaders : AcrHeaderValues,
      accept : { "application/xml" }, sessionID : { "" },
      path : { "/2.0.0/search" }, rawQuery : { << >> },
      remoteAddr : RemoteAddrs, xForwardedFor : { "" }, xRealIP : { "" } ]

\* Requests of the other verbs, with every combination of what is forwarded.
OtherRequests ==
    [ method : { "GET", "POST" }, origin : Origins,
      acrMethod : { "" }, acrHeader : { "" }, acrHeaders : { "" },
      accept : Accepts, sessionID : SessionIDs,
      path : Paths, rawQuery : RawQueries,
      remoteAddr : RemoteAddrs, xForwardedFor : { "" }, xRealIP : { "" } ]

Requests == PreflightRequests \cup OtherRequests

NoRequest ==
    [ method |-> "", origin |-> << >>, acrMethod |-> "", acrHeader |-> "",
      acrHeaders |-> "", accept |-> "", sessionID |-> "", path |-> "",
      rawQuery |-> << >>, remoteAddr |-> "", xForwardedFor |-> "",
      xRealIP |-> "" ]

NoAPIRequest == [ built |-> FALSE ]

NoAPIResponse == [ received |-> FALSE ]

TransportErrors == { "timeout", "connection refused" }

\* The headers of an upstream response; "" stands for a header that is not
\* there.
UpstreamHeaders ==
    { [ n \in { ContentType, SetCookie, ACAO } |->
            CASE n = ContentType -> ct
              [] n = SetCookie -> "sid=1"
              [] n = ACAO -> "https://summon.serialssolutions.com" ] :
        ct \in { "", "application/xml" } }

\* The upstream responses: the body comes in two pieces.
UpstreamResponses ==
    [ status : { 200, 400, 503 }, header : UpstreamHeaders,
      body : { << "<response>", "</response>" >> } ]

-----------------------------------------------------------------------------
(* The rate limiter: one token bucket per client key.  Time is counted in  *)
(* whole seconds and the limit in whole requests per second; buckets are   *)
(* kept for as long as the model runs.                                     *)

Min(a, b) == IF a <= b THEN a ELSE b
Max(a, b) == IF a >= b THEN a ELSE b

\* The limiter's lookups when SetIPLookups is not called: the peer address.
DefaultIPLookups == << "RemoteAddr" >>

\* IPLookups naming the proxy headers first whatever the flag says.
IPLookups_AlwaysHeaders(checkProxyHeaders) ==
    << "X-Forwarded-For", "X-Real-IP", "RemoteAddr" >>

\* The lookups main() leaves the limiter with.
IPLookups(checkProxyHeaders) ==
    IF checkProxyHeaders
    THEN << "X-Forwarded-For", "X-Real-IP", "RemoteAddr" >>
    ELSE DefaultIPLookups

\* What one lookup finds in the request.
LookupValue(r, lookup) ==
    CASE lookup = "X-Forwarded-For" -> r.xForwardedFor
      [] lookup = "X-Real-IP" -> r.xRealIP
      [] lookup = "RemoteAddr" -> r.remoteAddr

RECURSIVE ClientKey(_, _)
\* The key a request is limited under: what the first lookup that finds
\* something finds.
ClientKey(r, lookups) ==
    IF lookups = << >> THEN ""
    ELSE IF LookupValue(r, Head(lookups)) # "" THEN LookupValue(r, Head(lookups))
    ELSE ClientKey(r, Tail(lookups))

\* Bucket capacity for a limit of max requests per second.
Burst(max) == Max(1, max)

\* The bucket of key at time now, created full on first use and refilled
\* for the time since it was last touched.
Refilled(bks, key, now, max) ==
    IF key \in DOMAIN bks
    THEN Min(Burst(max), bks[key].tokens + (now - bks[key].last) * max)
    ELSE Burst(max)

\* TRUE when the request may not pass.
LimitReached(bks, key, now, max) == Refilled(bks, key, now, max) < 1

\* The buckets after the check: one token taken when the request passes.
AfterCheck(bks, key, now, max) ==
    LET t == Refilled(bks, key, now, max)
        b == [ tokens |-> IF t >= 1 THEN t - 1 ELSE t, last |-> now ]
    IN  [ k \in DOMAIN bks \cup { key } |-> IF k = key THEN b ELSE bks[k] ]

-----------------------------------------------------------------------------
(* proxyHandler, first part: the CORS gate *)

\* The three results of the gate: an error reply, the preflight reply, or
\* the response headers to continue with.
GateError(code, message) ==
    [ kind |-> "error", code |-> code, message |-> message, headers |-> NoHeaders ]

GateReply(kind, headers) ==
    [ kind |-> kind, code |-> 0, message |-> << >>, headers |-> headers ]

\* Origin set, method OPTIONS.
Preflight(r, allowed) ==
    LET preflightRequestMethod == r.acrMethod
        preflightRequestHeader == r.acrHeader
    IN  IF preflightRequestMethod = ""
        THEN GateError(StatusBadRequest, MsgMethodNotSet)
        ELSE IF preflightRequestMethod # "GET"
        THEN GateError(StatusBadRequest, MsgMethodNotGet)
        ELSE IF preflightRequestHeader # ""
                /\ preflightRequestHeader # "x-summon-session-id"
        THEN GateError(StatusBadRequest, MsgHeaderNotSession)
        ELSE GateReply("preflight",
                 setACAOHeader(
                     HeaderSet(HeaderSet(HeaderSet(NoHeaders,
                         ACAM, "GET"),
                         ACAH, "x-summon-session-id"),
                         ACMA, DefaultMaxAge),
                     r, allowed))

\* SimpleRequest turning away a GET whose Origin is not on the list.
SimpleRequest_RejectUnlisted(r, allowed) ==
    IF r.method # "GET" \/ setACAOHeader(NoHeaders, r, allowed) = NoHeaders
    THEN GateError(StatusMethodNotAllowed, MsgOnlyGet)
    ELSE GateReply("continue", setACAOHeader(NoHeaders, r, allowed))

\* Origin set, any other method.
SimpleRequest(r, allowed) ==
    IF r.method # "GET"
    THEN GateError(StatusMethodNotAllowed, MsgOnlyGet)
    ELSE GateReply("continue", setACAOHeader(NoHeaders, r, allowed))

\* CorsGate without the test of the Origin header.
CorsGate_NoOriginTest(r, allowed) ==
    IF r.method = "OPTIONS"
    THEN Preflight(r, allowed)
    ELSE SimpleRequest(r, allowed)

\* CorsGate refusing every Accept value but the two the API documents.
CorsGate_AcceptValidated(r, allowed) ==
    IF r.accept \notin { "application/json", "application/xml" }
    THEN GateError(StatusBadRequest, << "Bad value for accept parameter." >>)
    ELSE IF r.origin # << >>
    THEN IF r.method = "OPTIONS"
         THEN Preflight(r, allowed)
         ELSE SimpleRequest(r, allowed)
    ELSE GateReply("continue", NoHeaders)

\* What proxyHandler does before it builds the API request.
CorsGate(r, allowed) ==
    IF r.origin # << >>
    THEN IF r.method = "OPTIONS"
         THEN Preflight(r, allowed)
         ELSE SimpleRequest(r, allowed)
    ELSE GateReply("continue", NoHeaders)

\* The outcome an error status stands for.
RejectedAs(code) ==
    IF code = StatusBadRequest THEN "Rejected400" ELSE "Rejected405"

\* AfterGate without the return that follows sendError and the preflight reply.
AfterGate_NoReturn(kind) == "Continue"

\* Where proxyHandler goes after the gate: it returns after an error or a
\* preflight reply, and goes on otherwise.
AfterGate(kind) == IF kind = "continue" THEN "Continue" ELSE "Done"

-----------------------------------------------------------------------------
(* package loglevel.  A string the package looks into is the sequence of
   its characters; "U+0131" stands for the one character of that code
   point. *)

ErrorMessage == 0
WarnMessage == 1
InfoMessage == 2
DebugMessage == 3
TraceMessage == 4

LogLevels == { ErrorMessage, WarnMessage, InfoMessage, DebugMessage, TraceMessage }

logLevelToString ==
    [ l \in LogLevels |->
        CASE l = ErrorMessage -> << "E", "R", "R", "O", "R" >>
          [] l = WarnMessage -> << "W", "A", "R", "N" >>
          [] l = InfoMessage -> << "I", "N", "F", "O" >>
          [] l = DebugMessage -> << "D", "E", "B", "U", "G" >>
          [] l = TraceMessage -> << "T", "R", "A", "C", "E" >> ]

\* LogLevel.String: the name in the map, or the empty string.
LevelString(level) ==
    IF level \in DOMAIN logLevelToString THEN logLevelToString[level] ELSE << >>

LowerLetters ==
    << "a", "b", "c", "d", "e", "f", "g", "h", "i", "j", "k", "l", "m",
       "n", "o", "p", "q", "r", "s", "t", "u", "v", "w", "x", "y", "z" >>

UpperLetters ==
    << "A", "B", "C", "D", "E", "F", "G", "H", "I", "J", "K", "L", "M",
       "N", "O", "P", "Q", "R", "S", "T", "U", "V", "W", "X", "Y", "Z" >>

\* unicode.ToUpper of one character: the ASCII letters, and the two other
\* characters whose upper case is an ASCII letter, dotless i and long s.
ToUpperRune(c) ==
    IF \E i \in DOMAIN LowerLetters : LowerLetters[i] = c
    THEN UpperLetters[CHOOSE i \in DOMAIN LowerLetters : LowerLetters[i] = c]
    ELSE IF c = "U+0131" THEN "I"
    ELSE IF c = "U+017F" THEN "S"
    ELSE c

\* unicode.ToLower of one character of the characters used here.
ToLowerRune(c) ==
    IF \E i \in DOMAIN UpperLetters : UpperLetters[i] = c
    THEN LowerLetters[CHOOSE i \in DOMAIN UpperLetters : UpperLetters[i] = c]
    ELSE c

\* strings.ToUpper and strings.ToLower.
ToUpper(s) == [ i \in DOMAIN s |-> ToUpperRune(s[i]) ]
ToLower(s) == [ i \in DOMAIN s |-> ToLowerRune(s[i]) ]

\* The error of ParseLogLevel; << >> is nil.
UnknownLogLevel(parseThis) ==
    << "Unknown log level '" >> \o parseThis \o << "', defaulting to TRACE." >>

\* ParseLogLevel comparing the string as it was given.
ParseLogLevel_CaseSensitive(parseThis) ==
    IF \E logLevel \in DOMAIN logLevelToString :
           logLevelToString[logLevel] = parseThis
    THEN [ level |-> CHOOSE logLevel \in DOMAIN logLevelToString :
                         logLevelToString[logLevel] = parseThis,
           err |-> << >> ]
    ELSE [ level |-> TraceMessage, err |-> UnknownLogLevel(parseThis) ]

\* The loop over the map returns at the one name that matches, whatever the
\* order of the iteration.
ParseLogLevel(parseThis) ==
    IF \E logLevel \in DOMAIN logLevelToString :
           logLevelToString[logLevel] = ToUpper(parseThis)
    THEN [ level |-> CHOOSE logLevel \in DOMAIN logLevelToString :
                         logLevelToString[logLevel] = ToUpper(parseThis),
           err |-> << >> ]
    ELSE [ level |-> TraceMessage, err |-> UnknownLogLevel(parseThis) ]

\* log.Printf("%v: %v\n", messagelevel, message), without the date and time
\* package log puts in front.
LogLine(messagelevel, message) ==
    LevelString(messagelevel) \o << ": ", message, "\n" >>

\* Log letting through the levels above the one set.
Emitted_LevelsAbove(messagelevel, level) == messagelevel >= level

\* Log's test of the message's level against the level set.
Emitted(messagelevel, level) == messagelevel <= level

\* What Log leaves in the output.
Logged(output, messagelevel, message, level) ==
    IF Emitted(messagelevel, level)
    THEN Append(output, LogLine(messagelevel, message))
    ELSE output

\* No call made yet.
NoCall == [ fn |-> "" ]

\* The process in the specifications that start where main serves: started
\* without arguments or environment, the logger at the default -loglevel and
\* not modelled further.
AfterStartup ==
    /\ args = << >>
    /\ environ = << >>
    /\ actual = { }
    /\ listOfUnsetFlags = { }
    /\ logMessageLevel = WarnMessage
    /\ logOutput = << >>
    /\ logCall = NoCall

-----------------------------------------------------------------------------
(* The state machine *)

Flags ==
    [ accessid : { "test" },
      secretkey : { "ed2ee2e0-65c1-11de-8a39-0800200c9a66" },
      summonapi : { DefaultSummonAPIURL },
      allowedorigins : AllowLists,
      timeout : { DefaultSummonAPITimeout },
      ratelimit : BOOLEAN,
      maxrequests : { DefaultMaxRequestsPerSecond },
      checkproxyheaders : { FALSE } ]

Init ==
    /\ flags \in Flags
    /\ clock = 0
    /\ buckets = << >>
    /\ pc = "Idle"
    /\ req = NoRequest
    /\ resp = NewRecorder
    /\ out = NoAPIRequest
    /\ outcome = ""
    /\ stages = << >>
    /\ consumed = 0
    /\ upstreamCalls = 0
    /\ apiResp = NoAPIResponse
    /\ AfterStartup

\* Time passes.
Tick ==
    /\ clock < MaxClock
    /\ clock' = clock + 1
    /\ UNCHANGED << flags, buckets, pc, req, resp, out, outcome, stages,
                    consumed, upstreamCalls,
                    apiResp >>
    /\ UNCHANGED << process, logger >>

\* The server accepts a request and hands it to the registered handler.
Receive(r) ==
    /\ pc = "Idle"
    /\ pc' = "Received"
    /\ req' = r
    /\ UNCHANGED << flags, clock, buckets, resp, out, outcome, stages,
                    consumed, upstreamCalls,
                    apiResp >>
    /\ UNCHANGED << process, logger >>

\* LimitFuncHandler keeping one bucket for all clients.
LimitFuncHandler_OneBucket ==
    /\ pc = "Received"
    /\ flags.ratelimit
    /\ LET key == "everyone"
       IN  /\ buckets' = AfterCheck(buckets, key, clock, flags.maxrequests)
           /\ stages' = Append(stages, "rate")
           /\ IF LimitReached(buckets, key, clock, flags.maxrequests)
              THEN /\ resp' = Write(WriteHeader(resp, StatusTooManyRequests), << >>)
                   /\ outcome' = "Rejected429"
                   /\ pc' = "Done"
                   /\ UNCHANGED consumed
              ELSE /\ consumed' = consumed + 1
                   /\ pc' = "Admitted"
                   /\ UNCHANGED << resp, outcome >>
    /\ UNCHANGED << flags, clock, req, out, upstreamCalls,
                    apiResp >>
    /\ UNCHANGED << process, logger >>

\* tollbooth.LimitFuncHandler(limiter, proxyHandler), registered when
\* -ratelimit is on: the limiter answers 429 itself or calls proxyHandler.
\* The text of the 429 reply is the library's and is left empty here.
LimitFuncHandler ==
    /\ pc = "Received"
    /\ flags.ratelimit
    /\ LET key == ClientKey(req, IPLookups(flags.checkproxyheaders))
       IN  /\ buckets' = AfterCheck(buckets, key, clock, flags.maxrequests)
           /\ stages' = Append(stages, "rate")
           /\ IF LimitReached(buckets, key, clock, flags.maxrequests)
              THEN /\ resp' = Write(WriteHeader(resp, StatusTooManyRequests), << >>)
                   /\ outcome' = "Rejected429"
                   /\ pc' = "Done"
                   /\ UNCHANGED consumed
              ELSE /\ consumed' = consumed + 1
                   /\ pc' = "Admitted"
                   /\ UNCHANGED << resp, outcome >>
    /\ UNCHANGED << flags, clock, req, out, upstreamCalls,
                    apiResp >>
    /\ UNCHANGED << process, logger >>

\* ProxyHandlerCors setting Access-Control-Allow-Origin before it looks at
\* the request.
ProxyHandlerCors_GrantFirst ==
    /\ pc = IF flags.ratelimit THEN "Admitted" ELSE "Received"
    /\ LET g == CorsGate(req, flags.allowedorigins)
           w == [ resp EXCEPT !.headers =
                      setACAOHeader(@, req, flags.allowedorigins) ]
       IN  /\ stages' = Append(stages, "cors")
           /\ pc' = AfterGate(g.kind)
           /\ CASE g.kind = "error" ->
                     /\ resp' = sendError(w, g.code, g.message)
                     /\ outcome' = RejectedAs(g.code)
                [] g.kind = "preflight" ->
                     /\ resp' = Write([ resp EXCEPT !.headers = g.headers ], << >>)
                     /\ outcome' = "PreflightResponded"
                [] g.kind = "continue" ->
                     /\ resp' = [ resp EXCEPT !.headers = g.headers ]
                     /\ UNCHANGED outcome
    /\ UNCHANGED << flags, clock, buckets, req, out, consumed, upstreamCalls,
                    apiResp >>
    /\ UNCHANGED << process, logger >>

\* proxyHandler up to the point where it builds the API request.  With
\* -ratelimit off it is the registered handler itself.
ProxyHandlerCors ==
    /\ pc = IF flags.ratelimit THEN "Admitted" ELSE "Received"
    /\ LET g == CorsGate(req, flags.allowedorigins)
       IN  /\ stages' = Append(stages, "cors")
           /\ pc' = AfterGate(g.kind)
           /\ CASE g.kind = "error" ->
                     /\ resp' = sendError(resp, g.code, g.message)
                     /\ outcome' = RejectedAs(g.code)
                [] g.kind = "preflight" ->
                     /\ resp' = Write([ resp EXCEPT !.headers = g.headers ], << >>)
                     /\ outcome' = "PreflightResponded"
                [] g.kind = "continue" ->
                     /\ resp' = [ resp EXCEPT !.headers = g.headers ]
                     /\ UNCHANGED outcome
    /\ UNCHANGED << flags, clock, buckets, req, out, consumed, upstreamCalls,
                    apiResp >>
    /\ UNCHANGED << process, logger >>

\* client.Timeout = time.Duration(*timeout) * time.Second, and the deadline
\* http.Client gives a request sent at second now: none (0 here) unless the
\* timeout is positive.
Deadline(timeout, now) == IF timeout > 0 THEN now + timeout ELSE 0

\* The header sent whatever the client sent.
SessionHeader_Always(sessionID) == << sessionID >>

\* The x-summon-session-id values of the API request: the client's, if it
\* sent one.
SessionHeader(sessionID) ==
    IF sessionID # "" THEN << sessionID >> ELSE << >>

\* ProxyHandlerSend signing the API URL as it was configured, before the
\* request's path and query are put in it.
ProxyHandlerSend_SignsBaseURL ==
    /\ pc = "Continue"
    /\ LET parsed == ParseURL(flags.summonapi)
           apiRequestURL == [ parsed EXCEPT !.path = req.path,
                                            !.rawQuery = req.rawQuery ]
           apiRequest == NewRequest("GET", URLString(apiRequestURL))
           accept == req.accept
           timestampRFC2616 == TimeFormat(clock)
       IN  IF parsed.err \/ apiRequest.err
           THEN /\ resp' = sendError(resp, StatusInternalServerError,
                                     IF parsed.err THEN MsgParseFailed
                                                   ELSE MsgBuildFailed)
                /\ outcome' = "InternalError500"
                /\ pc' = "Done"
                /\ UNCHANGED << out, stages, upstreamCalls >>
           ELSE /\ \E order \in KeyOrders(Query(apiRequestURL.rawQuery)) :
                       out' = [ built |-> TRUE,
                                method |-> apiRequest.method,
                                url |-> apiRequest.url,
                                close |-> TRUE,
                                deadline |-> Deadline(flags.timeout, clock),
                                accept |-> << accept >>,
                                date |-> << timestampRFC2616 >>,
                                sessionID |-> SessionHeader(req.sessionID),
                                authorization |->
                                    << buildHeader(parsed, accept,
                                                   timestampRFC2616,
                                                   flags.accessid, flags.secretkey,
                                                   order) >> ]
                /\ stages' = stages \o << "sign", "forward" >>
                /\ upstreamCalls' = upstreamCalls + 1
                /\ pc' = "Forwarded"
                /\ UNCHANGED << resp, outcome >>
    /\ UNCHANGED << flags, clock, buckets, req, consumed, apiResp >>
    /\ UNCHANGED << process, logger >>

\* proxyHandler: build the API request, sign it and send it, or answer 500
\* when the API URL does not parse or the request cannot be built.
ProxyHandlerSend ==
    /\ pc = "Continue"
    /\ LET parsed == ParseURL(flags.summonapi)
           apiRequestURL == [ parsed EXCEPT !.path = req.path,
                                            !.rawQuery = req.rawQuery ]
           apiRequest == NewRequest("GET", URLString(apiRequestURL))
           accept == req.accept
           timestampRFC2616 == TimeFormat(clock)
       IN  IF parsed.err \/ apiRequest.err
           THEN /\ resp' = sendError(resp, StatusInternalServerError,
                                     IF parsed.err THEN MsgParseFailed
                                                   ELSE MsgBuildFailed)
                /\ outcome' = "InternalError500"
                /\ pc' = "Done"
                /\ UNCHANGED << out, stages, upstreamCalls >>
           ELSE /\ \E order \in KeyOrders(Query(apiRequestURL.rawQuery)) :
                       out' = [ built |-> TRUE,
                                method |-> apiRequest.method,
                                url |-> apiRequest.url,
                                close |-> TRUE,
                                deadline |-> Deadline(flags.timeout, clock),
                                accept |-> << accept >>,
                                date |-> << timestampRFC2616 >>,
                                sessionID |-> SessionHeader(req.sessionID),
                                authorization |->
                                    << buildHeader(apiRequestURL, accept,
                                                   timestampRFC2616,
                                                   flags.accessid, flags.secretkey,
                                                   order) >> ]
                /\ stages' = stages \o << "sign", "forward" >>
                /\ upstreamCalls' = upstreamCalls + 1
                /\ pc' = "Forwarded"
                /\ UNCHANGED << resp, outcome >>
    /\ UNCHANGED << flags, clock, buckets, req, consumed, apiResp >>
    /\ UNCHANGED << process, logger >>

\* ProxyHandlerSendFailed sending the API request once more after the first
\* error.
ProxyHandlerSendFailed_Retry(err) ==
    /\ pc = "Forwarded"
    /\ IF upstreamCalls < 2
       THEN /\ upstreamCalls' = upstreamCalls + 1
            /\ UNCHANGED << resp, outcome, pc >>
       ELSE /\ resp' = sendError(resp, StatusInternalServerError, MsgSendFailed(err))
            /\ outcome' = "UpstreamError500"
            /\ pc' = "Done"
            /\ UNCHANGED upstreamCalls
    /\ UNCHANGED << flags, clock, buckets, req, out, stages, consumed,
                    apiResp >>
    /\ UNCHANGED << process, logger >>

\* client.Do returned an error (timeout, connection or TLS failure).
ProxyHandlerSendFailed(err) ==
    /\ pc = "Forwarded"
    /\ resp' = sendError(resp, StatusInternalServerError, MsgSendFailed(err))
    /\ outcome' = "UpstreamError500"
    /\ pc' = "Done"
    /\ UNCHANGED << flags, clock, buckets, req, out, stages, consumed,
                    upstreamCalls,
                    apiResp >>
    /\ UNCHANGED << process, logger >>

\* The cookies sent on as well.
ProxiedHeaders_WithCookies == << ContentType, SetCookie >>

\* The upstream headers sent on to the client.
ProxiedHeaders == << ContentType >>

RECURSIVE RelayHeaders(_, _, _)
\* The loop over proxiedHeaders: each one the upstream response has is added
\* to the client response.
RelayHeaders(w, header, proxiedHeaders) ==
    IF proxiedHeaders = << >> THEN w
    ELSE LET proxiedHeader == Head(proxiedHeaders)
             w1 == IF header[proxiedHeader] # ""
                   THEN [ w EXCEPT !.headers =
                              HeaderAdd(@, proxiedHeader, header[proxiedHeader]) ]
                   ELSE w
         IN  RelayHeaders(w1, header, Tail(proxiedHeaders))

\* ProxyHandlerRelay returning where io.Copy fails, before the body is closed.
ProxyHandlerRelay_ReturnOnCopyError(answer, written) ==
    /\ pc = "Forwarded"
    /\ out.url.scheme \in { "http", "https" }
    /\ LET w1 == RelayHeaders(resp, answer.header, ProxiedHeaders)
           w2 == WriteHeader(w1, answer.status)
       IN  resp' = Write(w2, SubSeq(answer.body, 1, written))
    /\ apiResp' = [ received |-> TRUE, response |-> answer,
                    closes |-> IF written < Len(answer.body) THEN 0 ELSE 1 ]
    /\ outcome' = "Relayed"
    /\ pc' = "Done"
    /\ UNCHANGED << flags, clock, buckets, req, out, stages, consumed,
                    upstreamCalls >>
    /\ UNCHANGED << process, logger >>

\* client.Do returned a response, which it does only for a URL of a scheme
\* it speaks: relay the proxied headers, the status and the body, then close
\* the body.  io.Copy stops at the first write the client does not take:
\* written is the number of pieces it took.
ProxyHandlerRelay(answer, written) ==
    /\ pc = "Forwarded"
    /\ out.url.scheme \in { "http", "https" }
    /\ LET w1 == RelayHeaders(resp, answer.header, ProxiedHeaders)
           w2 == WriteHeader(w1, answer.status)
       IN  resp' = Write(w2, SubSeq(answer.body, 1, written))
    /\ apiResp' = [ received |-> TRUE, response |-> answer, closes |-> 1 ]
    /\ outcome' = "Relayed"
    /\ pc' = "Done"
    /\ UNCHANGED << flags, clock, buckets, req, out, stages, consumed,
                    upstreamCalls >>
    /\ UNCHANGED << process, logger >>

\* The handler has returned; the server is ready for the next request.
Finish ==
    /\ pc = "Done"
    /\ pc' = "Idle"
    /\ req' = NoRequest
    /\ resp' = NewRecorder
    /\ out' = NoAPIRequest
    /\ outcome' = ""
    /\ stages' = << >>
    /\ consumed' = 0
    /\ upstreamCalls' = 0
    /\ apiResp' = NoAPIResponse
    /\ UNCHANGED << flags, clock, buckets >>
    /\ UNCHANGED << process, logger >>

Next ==
    \/ Tick
    \/ \E r \in Requests : Receive(r)
    \/ LimitFuncHandler
    \/ ProxyHandlerCors
    \/ ProxyHandlerSend
    \/ \E err \in TransportErrors : ProxyHandlerSendFailed(err)
    \/ \E answer \in UpstreamResponses :
           \E written \in 0 .. Len(answer.body) : ProxyHandlerRelay(answer, written)
    \/ Finish

Spec == Init /\ [][Next]_vars

-----------------------------------------------------------------------------
(* The signer under a wider range of inputs: the proxy run with rate       *)
(* limiting off and any origin allowed, over GET requests without Origin   *)
(* whose queries exercise url.Values and sort.Strings, and with the secret *)
(* key and the API host varied.                                            *)

SignSecrets == { "ed2ee2e0-65c1-11de-8a39-0800200c9a66", "another-secret" }

SignHosts == { DefaultSummonAPIHost, "localhost:8080" }

SignURLs == { << "https", "://", h >> : h \in SignHosts }

SignRawQueries ==
    { << >>,
      << "b", "=", "2", "&", "a", "=", "1" >>,
      << "a", "=", "1", "&", "b", "=", "2" >>,
      << "a", "=", "1", "&", "a", ".", "b", "=", "2" >>,
      << "a", "=", "2", "&", "a", "=", "1" >>,
      << "a", "=", "1", "&", "a", "=", "1" >>,
      << "a", "=", "1", "+", "2" >>,
      << "a", "=", "1", "%", "2", "0", "2" >>,
      << "a", "=", "1", "%", "2", "6", "b", "=", "2" >>,
      << "a", "&", "b", "=", "2" >>,
      << "a", "=", "%", "&", "b", "=", "2" >> }

SignFlags ==
    [ accessid : { "test" },
      secretkey : SignSecrets,
      summonapi : SignURLs,
      allowedorigins : { << "*" >> },
      timeout : { DefaultSummonAPITimeout },
      ratelimit : { FALSE },
      maxrequests : { DefaultMaxRequestsPerSecond },
      checkproxyheaders : { FALSE } ]

SignRequests ==
    [ method : { "GET" }, origin : { << >> },
      acrMethod : { "" }, acrHeader : { "" }, acrHeaders : { "" },
      accept : Accepts, sessionID : { "" },
      path : Paths, rawQuery : SignRawQueries,
      remoteAddr : { "10.0.0.1" }, xForwardedFor : { "" }, xRealIP : { "" } ]

SignInit ==
    /\ flags \in SignFlags
    /\ clock = 0
    /\ buckets = << >>
    /\ pc = "Idle"
    /\ req = NoRequest
    /\ resp = NewRecorder
    /\ out = NoAPIRequest
    /\ outcome = ""
    /\ stages = << >>
    /\ consumed = 0
    /\ upstreamCalls = 0
    /\ apiResp = NoAPIResponse
    /\ AfterStartup

SignNext ==
    \/ Tick
    \/ \E r \in SignRequests : Receive(r)
    \/ ProxyHandlerCors
    \/ ProxyHandlerSend
    \/ \E err \in TransportErrors : ProxyHandlerSendFailed(err)
    \/ \E answer \in UpstreamResponses :
           \E written \in 0 .. Len(answer.body) : ProxyHandlerRelay(answer, written)
    \/ Finish

SignSpec == SignInit /\ [][SignNext]_vars

-----------------------------------------------------------------------------
(* The limiter under a wider range of clients: the proxy run with rate     *)
(* limiting on, with and without -checkproxyheaders, over requests that    *)
(* differ in the peer address and in the X-Forwarded-For and X-Real-IP     *)
(* headers they carry.                                                     *)

ForwardedFors == { "", "10.0.0.2", "10.0.0.7" }

RealIPs == { "", "10.0.0.8" }

LimitFlags ==
    [ accessid : { "test" },
      secretkey : { "ed2ee2e0-65c1-11de-8a39-0800200c9a66" },
      summonapi : { DefaultSummonAPIURL },
      allowedorigins : { << "*" >> },
      timeout : { DefaultSummonAPITimeout },
      ratelimit : { TRUE },
      maxrequests : { DefaultMaxRequestsPerSecond },
      checkproxyheaders : BOOLEAN ]

LimitRequests ==
    [ method : { "GET", "POST" }, origin : { << "a" >> },
      acrMethod : { "" }, acrHeader : { "" }, acrHeaders : { "" },
      accept : { "application/xml" }, sessionID : { "" },
      path : { "/2.0.0/search" }, rawQuery : { << >> },
      remoteAddr : RemoteAddrs, xForwardedFor : ForwardedFors,
      xRealIP : RealIPs ]

LimitInit ==
    /\ flags \in LimitFlags
    /\ clock = 0
    /\ buckets = << >>
    /\ pc = "Idle"
    /\ req = NoRequest
    /\ resp = NewRecorder
    /\ out = NoAPIRequest
    /\ outcome = ""
    /\ stages = << >>
    /\ consumed = 0
    /\ upstreamCalls = 0
    /\ apiResp = NoAPIResponse
    /\ AfterStartup

LimitNext ==
    \/ Tick
    \/ \E r \in LimitRequests : Receive(r)
    \/ LimitFuncHandler
    \/ ProxyHandlerCors
    \/ ProxyHandlerSend
    \/ \E err \in TransportErrors : ProxyHandlerSendFailed(err)
    \/ \E answer \in UpstreamResponses :
           \E written \in 0 .. Len(answer.body) : ProxyHandlerRelay(answer, written)
    \/ Finish

LimitSpec == LimitInit /\ [][LimitNext]_vars

-----------------------------------------------------------------------------
(* Requests served concurrently.  net/http serves every connection in its
   own goroutine, so the handler registered in main runs for several
   requests at once and they meet in the limiter's bucket table.  Here pc,
   req, resp, outcome and consumed hold one value per worker, each worker
   serves one request, and a worker's passage through the limiter is taken
   apart into the steps other workers can come between: refilling the
   bucket, testing it, taking the token.  The worker stops where
   proxyHandler would be called. *)

MaxWorkers == 2

Workers == 1 .. MaxWorkers

ConcFlags ==
    [ accessid : { "test" },
      secretkey : { "ed2ee2e0-65c1-11de-8a39-0800200c9a66" },
      summonapi : { DefaultSummonAPIURL },
      allowedorigins : { << "*" >> },
      timeout : { DefaultSummonAPITimeout },
      ratelimit : { TRUE },
      maxrequests : { DefaultMaxRequestsPerSecond, 2 },
      checkproxyheaders : { FALSE } ]

ConcRequests ==
    [ method : { "GET" }, origin : { << "a" >> },
      acrMethod : { "" }, acrHeader : { "" }, acrHeaders : { "" },
      accept : { "application/xml" }, sessionID : { "" },
      path : { "/2.0.0/search" }, rawQuery : { << >> },
      remoteAddr : RemoteAddrs, xForwardedFor : { "" }, xRealIP : { "" } ]

ConcInit ==
    /\ flags \in ConcFlags
    /\ clock = 0
    /\ buckets = << >>
    /\ pc = [ w \in Workers |-> "Idle" ]
    /\ req = [ w \in Workers |-> NoRequest ]
    /\ resp = [ w \in Workers |-> NewRecorder ]
    /\ outcome = [ w \in Workers |-> "" ]
    /\ consumed = [ w \in Workers |-> 0 ]
    /\ out = NoAPIRequest
    /\ stages = << >>
    /\ upstreamCalls = 0
    /\ apiResp = NoAPIResponse
    /\ AfterStartup

\* The key worker w's request is limited under.
KeyOf(w) == ClientKey(req[w], IPLookups(flags.checkproxyheaders))

\* Worker w is between taking and releasing the lock of its bucket.
InLimiter(w) == pc[w] \in { "Locked", "Refilled", "Passing", "Limited" }

\* Never exclusive: any worker enters whoever is inside.
CanEnter_NoLock(w) == TRUE

\* The bucket's lock is free for worker w: no other worker is inside the
\* limiter for the same key.
CanEnter(w) ==
    \A v \in Workers \ { w } : InLimiter(v) => KeyOf(v) # KeyOf(w)

\* The server accepts a connection and starts a goroutine for its request.
Accept(w, r) ==
    /\ pc[w] = "Idle"
    /\ pc' = [ pc EXCEPT ![w] = "Received" ]
    /\ req' = [ req EXCEPT ![w] = r ]
    /\ UNCHANGED << flags, clock, buckets, resp, out, outcome, stages,
                    consumed, upstreamCalls,
                    apiResp >>
    /\ UNCHANGED << process, logger >>

\* The worker takes the lock of its key's bucket.
Lock(w) ==
    /\ pc[w] = "Received"
    /\ CanEnter(w)
    /\ pc' = [ pc EXCEPT ![w] = "Locked" ]
    /\ UNCHANGED << flags, clock, buckets, req, resp, out, outcome, stages,
                    consumed, upstreamCalls,
                    apiResp >>
    /\ UNCHANGED << process, logger >>

\* The bucket is created full, or refilled for the time since it was last
\* touched.
Refill(w) ==
    /\ pc[w] = "Locked"
    /\ LET key == KeyOf(w)
           b == [ tokens |-> Refilled(buckets, key, clock, flags.maxrequests),
                  last |-> clock ]
       IN  buckets' = [ k \in DOMAIN buckets \cup { key } |->
                            IF k = key THEN b ELSE buckets[k] ]
    /\ pc' = [ pc EXCEPT ![w] = "Refilled" ]
    /\ UNCHANGED << flags, clock, req, resp, out, outcome, stages,
                    consumed, upstreamCalls,
                    apiResp >>
    /\ UNCHANGED << process, logger >>

\* The check: is a token left.
Test(w) ==
    /\ pc[w] = "Refilled"
    /\ pc' = [ pc EXCEPT ![w] =
                   IF buckets[KeyOf(w)].tokens < 1 THEN "Limited" ELSE "Passing" ]
    /\ UNCHANGED << flags, clock, buckets, req, resp, out, outcome, stages,
                    consumed, upstreamCalls,
                    apiResp >>
    /\ UNCHANGED << process, logger >>

\* The consume: the token is taken, the lock released and proxyHandler
\* called.
Consume(w) ==
    /\ pc[w] = "Passing"
    /\ buckets' = [ buckets EXCEPT ![KeyOf(w)].tokens = @ - 1 ]
    /\ consumed' = [ consumed EXCEPT ![w] = @ + 1 ]
    /\ pc' = [ pc EXCEPT ![w] = "Admitted" ]
    /\ UNCHANGED << flags, clock, req, resp, out, outcome, stages,
                    upstreamCalls,
                    apiResp >>
    /\ UNCHANGED << process, logger >>

\* No token: the lock is released and the limiter answers 429.
Reject(w) ==
    /\ pc[w] = "Limited"
    /\ resp' = [ resp EXCEPT ![w] =
                     Write(WriteHeader(resp[w], StatusTooManyRequests), << >>) ]
    /\ outcome' = [ outcome EXCEPT ![w] = "Rejected429" ]
    /\ pc' = [ pc EXCEPT ![w] = "Done" ]
    /\ UNCHANGED << flags, clock, buckets, req, out, stages, consumed,
                    upstreamCalls,
                    apiResp >>
    /\ UNCHANGED << process, logger >>

ConcNext ==
    \/ Tick
    \/ \E w \in Workers, r \in ConcRequests : Accept(w, r)
    \/ \E w \in Workers : Lock(w)
    \/ \E w \in Workers : Refill(w)
    \/ \E w \in Workers : Test(w)
    \/ \E w \in Workers : Consume(w)
    \/ \E w \in Workers : Reject(w)

ConcSpec == ConcInit /\ [][ConcNext]_vars

-----------------------------------------------------------------------------
(* The forwarder, with a wider choice of API URLs, secret keys, Accept
   values and transport errors than Spec takes, behind a gate that lets
   every origin through. *)

FwdURLs ==
    { DefaultSummonAPIURL,
      << "https", "://", DefaultSummonAPIHost, "/api" >> }

FwdAccepts == Accepts \cup { "application/json", "text/html" }

FwdTransportErrors ==
    TransportErrors \cup { "x509: certificate signed by unknown authority" }

FwdFlags ==
    [ accessid : { "test" },
      secretkey : SignSecrets,
      summonapi : FwdURLs,
      allowedorigins : { << "*" >> },
      timeout : { DefaultSummonAPITimeout },
      ratelimit : BOOLEAN,
      maxrequests : { DefaultMaxRequestsPerSecond },
      checkproxyheaders : { FALSE } ]

FwdPreflights ==
    [ method : { "OPTIONS" }, origin : { << "a" >> },
      acrMethod : { "", "GET", "POST" }, acrHeader : { "", "bad-news" },
      acrHeaders : { "" },
      accept : { "application/xml" }, sessionID : { "" },
      path : { "/2.0.0/search" }, rawQuery : { << >> },
      remoteAddr : { "10.0.0.1" }, xForwardedFor : { "" }, xRealIP : { "" } ]

FwdRequests ==
    [ method : { "GET", "POST" }, origin : { << >>, << "a" >> },
      acrMethod : { "" }, acrHeader : { "" }, acrHeaders : { "" },
      accept : FwdAccepts, sessionID : SessionIDs,
      path : Paths, rawQuery : RawQueries,
      remoteAddr : { "10.0.0.1" }, xForwardedFor : { "" }, xRealIP : { "" } ]
        \cup FwdPreflights

FwdInit ==
    /\ flags \in FwdFlags
    /\ clock = 0
    /\ buckets = << >>
    /\ pc = "Idle"
    /\ req = NoRequest
    /\ resp = NewRecorder
    /\ out = NoAPIRequest
    /\ outcome = ""
    /\ stages = << >>
    /\ consumed = 0
    /\ upstreamCalls = 0
    /\ apiResp = NoAPIResponse
    /\ AfterStartup

FwdNext ==
    \/ Tick
    \/ \E r \in FwdRequests : Receive(r)
    \/ LimitFuncHandler
    \/ ProxyHandlerCors
    \/ ProxyHandlerSend
    \/ \E err \in FwdTransportErrors : ProxyHandlerSendFailed(err)
    \/ \E answer \in UpstreamResponses :
           \E written \in 0 .. Len(answer.body) : ProxyHandlerRelay(answer, written)
    \/ Finish

FwdSpec == FwdInit /\ [][FwdNext]_vars

-----------------------------------------------------------------------------
(* The handler and the timer of its http.Client.  Time does not stop while
   a request waits for its deadline, and a timer whose deadline has come
   fires: these two are fair.  What the clients and the upstream do is not:
   the upstream may answer, fail, or stay silent for ever. *)

LiveTimeouts == { 0, 1 }

LiveFlags ==
    [ accessid : { "test" },
      secretkey : { "ed2ee2e0-65c1-11de-8a39-0800200c9a66" },
      summonapi : { DefaultSummonAPIURL },
      allowedorigins : { << "*" >> },
      timeout : LiveTimeouts,
      ratelimit : { FALSE },
      maxrequests : { DefaultMaxRequestsPerSecond },
      checkproxyheaders : { FALSE } ]

LiveRequests ==
    [ method : { "GET", "POST" }, origin : { << >>, << "a" >> },
      acrMethod : { "" }, acrHeader : { "" }, acrHeaders : { "" },
      accept : { "application/xml" }, sessionID : { "" },
      path : { "/2.0.0/search" }, rawQuery : RawQueries,
      remoteAddr : { "10.0.0.1" }, xForwardedFor : { "" }, xRealIP : { "" } ]

LiveInit ==
    /\ flags \in LiveFlags
    /\ clock = 0
    /\ buckets = << >>
    /\ pc = "Idle"
    /\ req = NoRequest
    /\ resp = NewRecorder
    /\ out = NoAPIRequest
    /\ outcome = ""
    /\ stages = << >>
    /\ consumed = 0
    /\ upstreamCalls = 0
    /\ apiResp = NoAPIResponse
    /\ AfterStartup

\* The API request in flight has a deadline that has not come yet.
TimerPending == pc = "Forwarded" /\ out.deadline # 0 /\ clock < out.deadline

\* Time passes, up to the end of the model's time and past it up to the
\* deadline of the last request.
LiveTick ==
    /\ clock < MaxClock \/ TimerPending
    /\ clock' = clock + 1
    /\ UNCHANGED << flags, buckets, pc, req, resp, out, outcome, stages,
                    consumed, upstreamCalls, apiResp >>
    /\ UNCHANGED << process, logger >>

\* Requests come in until the end of the model's time.
LiveReceive(r) == clock < MaxClock /\ Receive(r)

\* The deadline has come: client.Do gives up and returns an error.
ClientTimeout ==
    /\ out.built
    /\ out.deadline # 0
    /\ clock >= out.deadline
    /\ ProxyHandlerSendFailed("net/http: request canceled (Client.Timeout exceeded)")

LiveNext ==
    \/ LiveTick
    \/ \E r \in LiveRequests : LiveReceive(r)
    \/ ProxyHandlerCors
    \/ ProxyHandlerSend
    \/ ClientTimeout
    \/ \E err \in TransportErrors : ProxyHandlerSendFailed(err)
    \/ \E answer \in UpstreamResponses :
           \E written \in 0 .. Len(answer.body) : ProxyHandlerRelay(answer, written)
    \/ Finish

LiveSpec ==
    /\ LiveInit /\ [][LiveNext]_vars
    /\ WF_vars(LiveTick)
    /\ WF_vars(ClientTimeout)

-----------------------------------------------------------------------------
(* main, from the parsed flags to the serving of requests.  The process
   starts with any values of the three settings main looks at; a fatal log
   call ends it. *)

BootURLs ==
    { DefaultSummonAPIURL,
      << "://", DefaultSummonAPIHost >>,
      << DefaultSummonAPIHost >>,
      << >> }

BootFlags ==
    [ accessid : { "", "test" },
      secretkey : { "", "ed2ee2e0-65c1-11de-8a39-0800200c9a66" },
      summonapi : BootURLs,
      allowedorigins : { << "*" >> },
      timeout : { DefaultSummonAPITimeout },
      ratelimit : { FALSE },
      maxrequests : { DefaultMaxRequestsPerSecond },
      checkproxyheaders : { FALSE } ]

BootRequests ==
    [ method : { "GET", "OPTIONS" }, origin : { << >>, << "a" >> },
      acrMethod : { "GET" }, acrHeader : { "" }, acrHeaders : { "" },
      accept : { "application/xml" }, sessionID : { "" },
      path : { "/2.0.0/search" }, rawQuery : RawQueries,
      remoteAddr : { "10.0.0.1" }, xForwardedFor : { "" }, xRealIP : { "" } ]

BootInit ==
    /\ flags \in BootFlags
    /\ clock = 0
    /\ buckets = << >>
    /\ pc = "Starting"
    /\ req = NoRequest
    /\ resp = NewRecorder
    /\ out = NoAPIRequest
    /\ outcome = ""
    /\ stages = << >>
    /\ consumed = 0
    /\ upstreamCalls = 0
    /\ apiResp = NoAPIResponse
    /\ AfterStartup

\* The checks without the one of the API URL.
StartupError_CredentialsOnly(f) ==
    IF f.accessid = ""
    THEN "FATAL: An access ID for the Summon API is required."
    ELSE IF f.secretkey = ""
    THEN "FATAL: An secret key for the Summon API is required."
    ELSE ""

\* The checks of main, in their order: the fatal message, or "" when main
\* goes on to serve.
StartupError(f) ==
    IF ParseURL(f.summonapi).err
    THEN "FATAL: Unable to parse Summon API URL."
    ELSE IF f.accessid = ""
    THEN "FATAL: An access ID for the Summon API is required."
    ELSE IF f.secretkey = ""
    THEN "FATAL: An secret key for the Summon API is required."
    ELSE ""

\* main: exit on a failed check, or register the handler and listen.
Main ==
    /\ pc = "Starting"
    /\ pc' = IF StartupError(flags) # "" THEN "Fatal" ELSE "Idle"
    /\ UNCHANGED << flags, clock, buckets, req, resp, out, outcome, stages,
                    consumed, upstreamCalls, apiResp >>
    /\ UNCHANGED << process, logger >>

BootNext ==
    \/ Main
    \/ Tick
    \/ \E r \in BootRequests : Receive(r)
    \/ ProxyHandlerCors
    \/ ProxyHandlerSend
    \/ \E err \in TransportErrors : ProxyHandlerSendFailed(err)
    \/ \E answer \in UpstreamResponses :
           \E written \in 0 .. Len(answer.body) : ProxyHandlerRelay(answer, written)
    \/ Finish

BootSpec == BootInit /\ [][BootNext]_vars

-----------------------------------------------------------------------------
(* proxyHandler run by several goroutines at once, with -ratelimit off: the
   server starts one goroutine per request, and each runs the handler from
   the CORS gate to the relayed response.  The flags and the clock are the
   state the goroutines have in common; the request, the ResponseWriter,
   the http.Client, the API request and the API response are locals of one
   call of the handler. *)

ParFlags ==
    [ accessid : { "test" },
      secretkey : { "ed2ee2e0-65c1-11de-8a39-0800200c9a66" },
      summonapi : { DefaultSummonAPIURL },
      allowedorigins : { << "*" >>, << "a", ";", " ", "b", ";" >> },
      timeout : { DefaultSummonAPITimeout },
      ratelimit : { FALSE },
      maxrequests : { DefaultMaxRequestsPerSecond },
      checkproxyheaders : { FALSE } ]

ParRequests ==
    [ method : { "GET", "OPTIONS" }, origin : { << "a" >>, << "A" >> },
      acrMethod : { "GET" }, acrHeader : { "" }, acrHeaders : { "" },
      accept : { "application/xml" }, sessionID : { "session-1" },
      path : { "/2.0.0/search" }, rawQuery : { << >> },
      remoteAddr : { "10.0.0.1" }, xForwardedFor : { "" }, xRealIP : { "" } ]

ParTransportErrors == { "timeout" }

ParUpstreamResponses ==
    [ status : { 200, 503 },
      header : { [ n \in { ContentType, SetCookie } |->
                     IF n = ContentType THEN "application/xml" ELSE "sid=1" ] },
      body : { << "<response></response>" >> } ]

ParInit ==
    /\ flags \in ParFlags
    /\ clock = 0
    /\ buckets = << >>
    /\ pc = [ w \in Workers |-> "Idle" ]
    /\ req = [ w \in Workers |-> NoRequest ]
    /\ resp = [ w \in Workers |-> NewRecorder ]
    /\ out = [ w \in Workers |-> NoAPIRequest ]
    /\ outcome = [ w \in Workers |-> "" ]
    /\ apiResp = [ w \in Workers |-> NoAPIResponse ]
    /\ stages = << >>
    /\ consumed = 0
    /\ upstreamCalls = 0
    /\ AfterStartup

\* proxyHandler's first part on ResponseWriter w and request r, under the
\* flags f: what it leaves in w and where it goes.
HandlerGate(w, r, f) ==
    LET g == CorsGate(r, f.allowedorigins)
    IN  CASE g.kind = "error" ->
               [ resp |-> sendError(w, g.code, g.message),
                 outcome |-> RejectedAs(g.code), pc |-> AfterGate(g.kind) ]
          [] g.kind = "preflight" ->
               [ resp |-> Write([ w EXCEPT !.headers = g.headers ], << >>),
                 outcome |-> "PreflightResponded", pc |-> AfterGate(g.kind) ]
          [] g.kind = "continue" ->
               [ resp |-> [ w EXCEPT !.headers = g.headers ],
                 outcome |-> "", pc |-> AfterGate(g.kind) ]

\* proxyHandler's second part at second now: the API request it builds, signs
\* and sends, or the 500 it answers.
HandlerSend(w, r, f, now, order) ==
    LET parsed == ParseURL(f.summonapi)
        apiRequestURL == [ parsed EXCEPT !.path = r.path,
                                         !.rawQuery = r.rawQuery ]
        apiRequest == NewRequest("GET", URLString(apiRequestURL))
        accept == r.accept
        timestampRFC2616 == TimeFormat(now)
    IN  IF parsed.err \/ apiRequest.err
        THEN [ resp |-> sendError(w, StatusInternalServerError,
                                  IF parsed.err THEN MsgParseFailed
                                                ELSE MsgBuildFailed),
               out |-> NoAPIRequest,
               outcome |-> "InternalError500", pc |-> "Done" ]
        ELSE [ resp |-> w,
               out |-> [ built |-> TRUE,
                         method |-> apiRequest.method,
                         url |-> apiRequest.url,
                         close |-> TRUE,
                         deadline |-> Deadline(f.timeout, now),
                         accept |-> << accept >>,
                         date |-> << timestampRFC2616 >>,
                         sessionID |-> SessionHeader(r.sessionID),
                         authorization |->
                             << buildHeader(apiRequestURL, accept,
                                            timestampRFC2616,
                                            f.accessid, f.secretkey, order) >> ],
               outcome |-> "", pc |-> "Forwarded" ]

\* proxyHandler's last part when client.Do returned the error err.
HandlerFailed(w, err) ==
    sendError(w, StatusInternalServerError, MsgSendFailed(err))

\* proxyHandler's last part when client.Do returned the response answer.
HandlerRelay(w, answer, written) ==
    LET w1 == RelayHeaders(w, answer.header, ProxiedHeaders)
        w2 == WriteHeader(w1, answer.status)
    IN  Write(w2, SubSeq(answer.body, 1, written))

\* The gate keeping the Origin it let through as the allow-list, the way a
\* handler with a package-level cache of the last Origin would.
ParCors_StoresOrigin(w) ==
    /\ pc[w] = "Received"
    /\ LET g == HandlerGate(resp[w], req[w], flags)
       IN  /\ resp' = [ resp EXCEPT ![w] = g.resp ]
           /\ outcome' = [ outcome EXCEPT ![w] = g.outcome ]
           /\ pc' = [ pc EXCEPT ![w] = g.pc ]
    /\ flags' = [ flags EXCEPT !.allowedorigins =
                      IF req[w].origin # << >> THEN req[w].origin ELSE @ ]
    /\ UNCHANGED << clock, buckets, req, out, stages, consumed,
                    upstreamCalls, apiResp >>
    /\ UNCHANGED << process, logger >>

\* Goroutine w runs the CORS gate.
ParCors(w) ==
    /\ pc[w] = "Received"
    /\ LET g == HandlerGate(resp[w], req[w], flags)
       IN  /\ resp' = [ resp EXCEPT ![w] = g.resp ]
           /\ outcome' = [ outcome EXCEPT ![w] = g.outcome ]
           /\ pc' = [ pc EXCEPT ![w] = g.pc ]
    /\ UNCHANGED << flags, clock, buckets, req, out, stages, consumed,
                    upstreamCalls, apiResp >>
    /\ UNCHANGED << process, logger >>

\* Goroutine w builds, signs and sends its API request.
ParSend(w) ==
    /\ pc[w] = "Continue"
    /\ \E order \in KeyOrders(Query(req[w].rawQuery)) :
           LET s == HandlerSend(resp[w], req[w], flags, clock, order)
           IN  /\ resp' = [ resp EXCEPT ![w] = s.resp ]
               /\ out' = [ out EXCEPT ![w] = s.out ]
               /\ outcome' = [ outcome EXCEPT ![w] = s.outcome ]
               /\ pc' = [ pc EXCEPT ![w] = s.pc ]
    /\ UNCHANGED << flags, clock, buckets, req, stages, consumed,
                    upstreamCalls, apiResp >>
    /\ UNCHANGED << process, logger >>

\* client.Do of goroutine w returned an error.
ParSendFailed(w, err) ==
    /\ pc[w] = "Forwarded"
    /\ resp' = [ resp EXCEPT ![w] = HandlerFailed(resp[w], err) ]
    /\ outcome' = [ outcome EXCEPT ![w] = "UpstreamError500" ]
    /\ pc' = [ pc EXCEPT ![w] = "Done" ]
    /\ UNCHANGED << flags, clock, buckets, req, out, stages, consumed,
                    upstreamCalls, apiResp >>
    /\ UNCHANGED << process, logger >>

\* client.Do of goroutine w returned a response.
ParRelay(w, answer, written) ==
    /\ pc[w] = "Forwarded"
    /\ out[w].url.scheme \in { "http", "https" }
    /\ resp' = [ resp EXCEPT ![w] = HandlerRelay(resp[w], answer, written) ]
    /\ apiResp' = [ apiResp EXCEPT ![w] =
                        [ received |-> TRUE, response |-> answer, closes |-> 1 ] ]
    /\ outcome' = [ outcome EXCEPT ![w] = "Relayed" ]
    /\ pc' = [ pc EXCEPT ![w] = "Done" ]
    /\ UNCHANGED << flags, clock, buckets, req, out, stages, consumed,
                    upstreamCalls >>
    /\ UNCHANGED << process, logger >>

ParNext ==
    \/ Tick
    \/ \E w \in Workers, r \in ParRequests : Accept(w, r)
    \/ \E w \in Workers : ParCors(w)
    \/ \E w \in Workers : ParSend(w)
    \/ \E w \in Workers, err \in ParTransportErrors : ParSendFailed(w, err)
    \/ \E w \in Workers, answer \in ParUpstreamResponses :
           \E written \in 0 .. Len(answer.body) : ParRelay(w, answer, written)

ParSpec == ParInit /\ [][ParNext]_vars

-----------------------------------------------------------------------------
(* main's first two calls: flag.Parse and
   overrideUnsetFlagsFromEnvironmentVariables.  The value of a flag on the
   command line or in the environment is a string, here the sequence of its
   pieces: the digits of a number, one piece for any other text. *)

\* The flags main.go defines, by name.
Options ==
    { "address", "summonapi", "accessid", "secretkey", "allowedorigins",
      "loglevel", "timeout", "ratelimit", "maxrequests", "checkproxyheaders" }

\* flag.String, flag.Int, flag.Bool, flag.Float64.
KindOf(o) ==
    CASE o = "timeout" -> "int"
      [] o \in { "ratelimit", "checkproxyheaders" } -> "bool"
      [] o = "maxrequests" -> "float64"
      [] OTHER -> "string"

\* The default each flag is defined with.
DefaultOf(o) ==
    CASE o = "address" -> << ":8877" >>
      [] o = "summonapi" -> << "https://api.summon.serialssolutions.com" >>
      [] o = "loglevel" -> << "warn" >>
      [] o = "timeout" -> DefaultSummonAPITimeout
      [] o = "ratelimit" -> TRUE
      [] o = "maxrequests" -> DefaultMaxRequestsPerSecond
      [] o = "checkproxyheaders" -> FALSE
      [] OTHER -> << >>

\* The characters of a flag's name.
NameRunes(o) ==
    CASE o = "address" -> << "a", "d", "d", "r", "e", "s", "s" >>
      [] o = "summonapi" -> << "s", "u", "m", "m", "o", "n", "a", "p", "i" >>
      [] o = "accessid" -> << "a", "c", "c", "e", "s", "s", "i", "d" >>
      [] o = "secretkey" -> << "s", "e", "c", "r", "e", "t", "k", "e", "y" >>
      [] o = "allowedorigins" ->
             << "a", "l", "l", "o", "w", "e", "d", "o", "r", "i", "g", "i", "n", "s" >>
      [] o = "loglevel" -> << "l", "o", "g", "l", "e", "v", "e", "l" >>
      [] o = "timeout" -> << "t", "i", "m", "e", "o", "u", "t" >>
      [] o = "ratelimit" -> << "r", "a", "t", "e", "l", "i", "m", "i", "t" >>
      [] o = "maxrequests" ->
             << "m", "a", "x", "r", "e", "q", "u", "e", "s", "t", "s" >>
      [] o = "checkproxyheaders" ->
             << "c", "h", "e", "c", "k", "p", "r", "o", "x", "y",
                "h", "e", "a", "d", "e", "r", "s" >>

EnvPrefix == << "L", "O", "R", "I", "C", "A", "_" >>

\* The name of the variable looked up for a flag.
EnvName(o) == EnvPrefix \o ToUpper(NameRunes(o))

Digits == << "0", "1", "2", "3", "4", "5", "6", "7", "8", "9" >>

IsDigit(c) == \E i \in DOMAIN Digits : Digits[i] = c

DigitValue(c) == (CHOOSE i \in DOMAIN Digits : Digits[i] = c) - 1

RECURSIVE ParseDigits(_, _, _)
\* The number the digits s spell in the given base after acc, or -1.
ParseDigits(s, base, acc) ==
    IF s = << >> THEN acc
    ELSE IF ~IsDigit(Head(s)) \/ DigitValue(Head(s)) >= base THEN -1
    ELSE ParseDigits(Tail(s), base, acc * base + DigitValue(Head(s)))

\* strconv.ParseInt(s, 0, 64) on signs and digits: a leading 0 makes the
\* number octal.
ParseInt(s) ==
    LET neg == s # << >> /\ Head(s) = "-"
        body == IF s # << >> /\ Head(s) \in { "-", "+" } THEN Tail(s) ELSE s
        base == IF Len(body) > 1 /\ Head(body) = "0" THEN 8 ELSE 10
        n == IF body = << >> THEN -1 ELSE ParseDigits(body, base, 0)
    IN  IF n < 0 THEN [ err |-> TRUE, value |-> 0 ]
        ELSE [ err |-> FALSE, value |-> IF neg THEN 0 - n ELSE n ]

\* strconv.ParseFloat on the whole numbers; the model gives no fractions.
ParseFloat(s) ==
    LET n == IF s = << >> THEN -1 ELSE ParseDigits(s, 10, 0)
    IN  IF n < 0 THEN [ err |-> TRUE, value |-> 0 ]
        ELSE [ err |-> FALSE, value |-> n ]

\* strconv.ParseBool.
ParseBool(s) ==
    IF s \in { << "1" >>, << "t" >>, << "T" >>, << "TRUE" >>, << "true" >>,
               << "True" >> }
    THEN [ err |-> FALSE, value |-> TRUE ]
    ELSE IF s \in { << "0" >>, << "f" >>, << "F" >>, << "FALSE" >>,
                    << "false" >>, << "False" >> }
    THEN [ err |-> FALSE, value |-> FALSE ]
    ELSE [ err |-> TRUE, value |-> FALSE ]

\* flag.Value.Set for a flag of the given kind.
ValueSet(kind, s) ==
    CASE kind = "string" -> [ err |-> FALSE, value |-> s ]
      [] kind = "int" -> ParseInt(s)
      [] kind = "bool" -> ParseBool(s)
      [] kind = "float64" -> ParseFloat(s)

\* The values a flag is given on the command line.
ArgValues(o) ==
    CASE KindOf(o) = "string" -> { << >>, << "from-flag" >> }
      [] KindOf(o) = "int" -> { << "1", "0" >>, << "2", "5" >>, << "x" >> }
      [] KindOf(o) = "bool" -> { << "true" >>, << "false" >> }
      [] KindOf(o) = "float64" -> { << "1" >>, << "3" >> }

\* The values its variable has in the environment; << >> is a variable that
\* is not there or is empty, which os.Getenv does not tell apart.
EnvValues(o) ==
    CASE KindOf(o) = "string" -> { << >>, << "from-env" >> }
      [] KindOf(o) = "int" -> { << >>, << "3", "0" >>, << "0", "1", "0" >>, << "x" >> }
      [] KindOf(o) = "bool" -> { << >>, << "1" >>, << "false" >>, << "yes" >> }
      [] KindOf(o) = "float64" -> { << >>, << "2" >>, << "x" >> }

\* The environment variables of the process: those of the flags, and one of
\* a flag's name as it is written.
EnvNames == { EnvName(o) : o \in Options } \cup { EnvPrefix \o NameRunes("timeout") }

\* The process starts with at most one flag on its command line and that
\* flag's variable, or the lower-case one, in its environment.
EnvInit ==
    /\ flags = [ o \in Options |-> DefaultOf(o) ]
    /\ \E o \in Options :
          /\ \/ args = << >>
             \/ \E v \in ArgValues(o) : args = [ n \in { o } |-> v ]
          /\ \E v \in EnvValues(o), name \in { EnvName(o), EnvPrefix \o NameRunes("timeout") } :
                 environ = [ n \in EnvNames |-> IF n = name THEN v ELSE << >> ]
    /\ actual = { }
    /\ listOfUnsetFlags = { }
    /\ logMessageLevel = ErrorMessage
    /\ logOutput = << >>
    /\ logCall = NoCall
    /\ clock = 0
    /\ buckets = << >>
    /\ pc = "Start"
    /\ req = NoRequest
    /\ resp = NewRecorder
    /\ out = NoAPIRequest
    /\ outcome = ""
    /\ stages = << >>
    /\ consumed = 0
    /\ upstreamCalls = 0
    /\ apiResp = NoAPIResponse

\* flag.Parse: every flag of the command line is set and recorded; a value
\* that does not parse ends the process with the usage message.
FlagParse ==
    /\ pc = "Start"
    /\ IF \E o \in DOMAIN args : ValueSet(KindOf(o), args[o]).err
       THEN /\ pc' = "Exit2"
            /\ UNCHANGED << flags, actual >>
       ELSE /\ flags' = [ o \in Options |->
                            IF o \in DOMAIN args
                            THEN ValueSet(KindOf(o), args[o]).value
                            ELSE flags[o] ]
            /\ actual' = DOMAIN args
            /\ pc' = "Parsed"
    /\ UNCHANGED << clock, buckets, req, resp, out, outcome, stages, consumed,
                    upstreamCalls, apiResp, args, environ, listOfUnsetFlags,
                    logger >>

\* The map keeping every flag.
UnsetFlags_Keep(all, set) == all

\* flag.VisitAll adds every flag to the map, flag.Visit deletes the set ones.
UnsetFlags(all, set) == all \ set

\* overrideUnsetFlagsFromEnvironmentVariables, up to its loop.
OverrideStart ==
    /\ pc = "Parsed"
    /\ listOfUnsetFlags' = UnsetFlags(Options, actual)
    /\ pc' = "Overriding"
    /\ UNCHANGED << flags, clock, buckets, req, resp, out, outcome, stages,
                    consumed, upstreamCalls, apiResp, args, environ, actual,
                    logger >>

\* One turn of the loop, for the flag k the map's iteration comes to: a
\* variable that is not empty sets the flag, or ends the process when the
\* flag does not take the value.
OverrideVisit(k) ==
    /\ pc = "Overriding"
    /\ k \in listOfUnsetFlags
    /\ LET environmentVariableName == EnvName(k)
           environmentVariableValue == environ[environmentVariableName]
           set == ValueSet(KindOf(k), environmentVariableValue)
       IN  IF environmentVariableValue # << >>
           THEN IF set.err
                THEN /\ pc' = "Fatal"
                     /\ UNCHANGED << flags, listOfUnsetFlags >>
                ELSE /\ flags' = [ flags EXCEPT ![k] = set.value ]
                     /\ listOfUnsetFlags' = listOfUnsetFlags \ { k }
                     /\ UNCHANGED pc
           ELSE /\ listOfUnsetFlags' = listOfUnsetFlags \ { k }
                /\ UNCHANGED << flags, pc >>
    /\ UNCHANGED << clock, buckets, req, resp, out, outcome, stages, consumed,
                    upstreamCalls, apiResp, args, environ, actual, logger >>

\* The loop is over and the function returns.
OverrideReturn ==
    /\ pc = "Overriding"
    /\ listOfUnsetFlags = { }
    /\ pc' = "Configured"
    /\ UNCHANGED << flags, clock, buckets, req, resp, out, outcome, stages,
                    consumed, upstreamCalls, apiResp, process, logger >>

EnvNext ==
    \/ FlagParse
    \/ OverrideStart
    \/ \E k \in Options : OverrideVisit(k)
    \/ OverrideReturn

EnvSpec == EnvInit /\ [][EnvNext]_vars

-----------------------------------------------------------------------------
(* package loglevel in use: any caller sets the level, logs a message, or
   logs one message at each level in turn.  The output holds at most MaxLog
   lines. *)

MaxLog == 5

LogMessages == { "x" }

LogInit ==
    /\ logMessageLevel = ErrorMessage
    /\ logOutput = << >>
    /\ logCall = NoCall
    /\ args = << >>
    /\ environ = << >>
    /\ actual = { }
    /\ listOfUnsetFlags = { }
    /\ flags = [ o \in Options |-> DefaultOf(o) ]
    /\ clock = 0
    /\ buckets = << >>
    /\ pc = "Idle"
    /\ req = NoRequest
    /\ resp = NewRecorder
    /\ out = NoAPIRequest
    /\ outcome = ""
    /\ stages = << >>
    /\ consumed = 0
    /\ upstreamCalls = 0
    /\ apiResp = NoAPIResponse

\* Set(level).
Set(level) ==
    /\ logMessageLevel' = level
    /\ logCall' = [ fn |-> "Set", level |-> level ]
    /\ UNCHANGED << flags, clock, buckets, pc, req, resp, out, outcome, stages,
                    consumed, upstreamCalls, apiResp, process, logOutput >>

\* Log(messagelevel, message).
Log(messagelevel, message) ==
    /\ Len(logOutput) < MaxLog
    /\ logOutput' = Logged(logOutput, messagelevel, message, logMessageLevel)
    /\ logCall' = [ fn |-> "Log", level |-> messagelevel, message |-> message ]
    /\ UNCHANGED << flags, clock, buckets, pc, req, resp, out, outcome, stages,
                    consumed, upstreamCalls, apiResp, process, logMessageLevel >>

\* The loop of TestLogLevel: one message logged at each level, from error
\* to trace.
LogEachLevel(message) ==
    /\ Len(logOutput) + Cardinality(LogLevels) <= MaxLog
    /\ logOutput' =
           Logged(Logged(Logged(Logged(Logged(logOutput,
               ErrorMessage, message, logMessageLevel),
               WarnMessage, message, logMessageLevel),
               InfoMessage, message, logMessageLevel),
               DebugMessage, message, logMessageLevel),
               TraceMessage, message, logMessageLevel)
    /\ logCall' = [ fn |-> "LogEachLevel", message |-> message ]
    /\ UNCHANGED << flags, clock, buckets, pc, req, resp, out, outcome, stages,
                    consumed, upstreamCalls, apiResp, process, logMessageLevel >>

LogNext ==
    \/ \E level \in LogLevels : Set(level)
    \/ \E messagelevel \in LogLevels, message \in LogMessages :
           Log(messagelevel, message)
    \/ \E message \in LogMessages : LogEachLevel(message)

LogSpec == LogInit /\ [][LogNext]_vars

-----------------------------------------------------------------------------
(* main from the configuration to its greeting: the value of -loglevel is
   parsed and set, or the process ends, and the four lines of the greeting
   are logged at the info level.
   The API URL is the default one, which url.Parse accepts, so the check
   between the two is no step here. *)

\* The mixed-case spelling of a name: its first letter in upper case.
Capitalized(name) ==
    [ i \in DOMAIN name |-> IF i = 1 THEN name[i] ELSE ToLowerRune(name[i]) ]

\* The values of -loglevel: the names in upper, lower and mixed case, and
\* strings that are no name of a level.
ParseInputs ==
    { logLevelToString[l] : l \in LogLevels }
    \cup { ToLower(logLevelToString[l]) : l \in LogLevels }
    \cup { Capitalized(logLevelToString[l]) : l \in LogLevels }
    \cup { << "U+0131", "n", "f", "o" >>,
           << "W", "A", "R", "N", "I", "N", "G" >>,
           << "b", "l", "a", "h" >>,
           << " ", "i", "n", "f", "o" >>,
           << >> }

\* The lines of the greeting.
Greeting ==
    << "Serving on address: ", "Using API URL: ",
       "Allowed Origins for CORS: ", "Summon API Timeout: " >>

\* main's position before each line of the greeting, and after the last.
GreetingPc == << "Greet1", "Greet2", "Greet3", "Greet4", "Greeted" >>

LevelInit ==
    /\ \E parseThis \in ParseInputs :
           flags = [ o \in Options |->
                       IF o = "loglevel" THEN parseThis ELSE DefaultOf(o) ]
    /\ pc = "Configured"
    /\ logMessageLevel = ErrorMessage
    /\ logOutput = << >>
    /\ logCall = NoCall
    /\ args = << >>
    /\ environ = << >>
    /\ actual = { }
    /\ listOfUnsetFlags = { }
    /\ clock = 0
    /\ buckets = << >>
    /\ req = NoRequest
    /\ resp = NewRecorder
    /\ out = NoAPIRequest
    /\ outcome = ""
    /\ stages = << >>
    /\ consumed = 0
    /\ upstreamCalls = 0
    /\ apiResp = NoAPIResponse

\* level, err := l.ParseLogLevel(*logLevel)
MainParseLogLevel ==
    /\ pc = "Configured"
    /\ logCall' = [ fn |-> "ParseLogLevel", parseThis |-> flags["loglevel"],
                    level |-> ParseLogLevel(flags["loglevel"]).level,
                    err |-> ParseLogLevel(flags["loglevel"]).err ]
    /\ pc' = "LevelParsed"
    /\ UNCHANGED << flags, clock, buckets, req, resp, out, outcome, stages,
                    consumed, upstreamCalls, apiResp, process,
                    logMessageLevel, logOutput >>

\* The error ends the process; without one the level is set.
MainSetLevel ==
    /\ pc = "LevelParsed"
    /\ IF logCall.err # << >>
       THEN /\ pc' = "Fatal"
            /\ UNCHANGED logMessageLevel
       ELSE /\ logMessageLevel' = logCall.level
            /\ pc' = GreetingPc[1]
    /\ UNCHANGED << flags, clock, buckets, req, resp, out, outcome, stages,
                    consumed, upstreamCalls, apiResp, process, logOutput,
                    logCall >>

\* Line i of the greeting.
MainGreet(i) ==
    /\ pc = GreetingPc[i]
    /\ logOutput' = Logged(logOutput, InfoMessage, Greeting[i], logMessageLevel)
    /\ pc' = GreetingPc[i + 1]
    /\ UNCHANGED << flags, clock, buckets, req, resp, out, outcome, stages,
                    consumed, upstreamCalls, apiResp, process,
                    logMessageLevel, logCall >>

LevelNext ==
    \/ MainParseLogLevel
    \/ MainSetLevel
    \/ \E i \in DOMAIN Greeting : MainGreet(i)

LevelSpec == LevelInit /\ [][LevelNext]_vars

-----------------------------------------------------------------------------
(* sendError on its own: called once on a ResponseWriter nothing was written
   to, with any of the status codes and messages below, and logging the
   error as it does. *)

\* The status codes given to sendError: those proxyHandler uses, and others,
\* 204 and 304 being those of responses without a body and 599 one net/http
\* has no text for.
ErrCodes ==
    { 204, 304, StatusBadRequest, 404, StatusMethodNotAllowed, StatusTooManyRequests,
      StatusInternalServerError, 503, 599 }

\* The messages: those proxyHandler uses, the empty one, and one with the
\* characters of markup and of a format.
ErrMessages ==
    { MsgMethodNotSet, MsgMethodNotGet, MsgHeaderNotSession, MsgOnlyGet,
      MsgParseFailed, MsgBuildFailed, MsgSendFailed("timeout"),
      << >>, << "<b>", "%v", "</b>" >> }

\* The ResponseWriters: a new one, and one whose headers the CORS gate set.
ErrWriters ==
    { NewRecorder,
      [ NewRecorder EXCEPT !.headers = HeaderSet(@, ACAO, << "*" >>) ] }

ErrInit ==
    /\ resp \in ErrWriters
    /\ pc = "Idle"
    /\ logMessageLevel \in { ErrorMessage, WarnMessage }
    /\ logOutput = << >>
    /\ logCall = NoCall
    /\ args = << >>
    /\ environ = << >>
    /\ actual = { }
    /\ listOfUnsetFlags = { }
    /\ flags = [ o \in Options |-> DefaultOf(o) ]
    /\ clock = 0
    /\ buckets = << >>
    /\ req = NoRequest
    /\ out = NoAPIRequest
    /\ outcome = ""
    /\ stages = << >>
    /\ consumed = 0
    /\ upstreamCalls = 0
    /\ apiResp = NoAPIResponse

\* fmt.Sprintf(format, a) as Logf calls it for the format "%v - %v": the
\* arguments arrive as one slice, which the first verb prints whole, and the
\* second verb has nothing to print.
SprintfSlice(a) ==
    << "[", Itoa(a[1]), " " >> \o a[2] \o << "]", " - ", "%!v(MISSING)" >>

\* sendError(w, statuscode, message), with its call of l.Logf.
SendError(statuscode, message) ==
    /\ pc = "Idle"
    /\ resp' = sendError(resp, statuscode, message)
    /\ logCall' = [ fn |-> "Logf", level |-> ErrorMessage,
                    a |-> << statuscode, message >> ]
    /\ logOutput' = Logged(logOutput, ErrorMessage,
                           SprintfSlice(<< statuscode, message >>),
                           logMessageLevel)
    /\ pc' = "Done"
    /\ UNCHANGED << flags, clock, buckets, req, out, outcome, stages, consumed,
                    upstreamCalls, apiResp, process, logMessageLevel >>

\* The handler that called sendError returns and the response is sent.
ErrReturn ==
    /\ pc = "Done"
    /\ pc' = "Sent"
    /\ UNCHANGED << flags, clock, buckets, req, resp, out, outcome, stages,
                    consumed, upstreamCalls, apiResp, process, logger >>

ErrNext ==
    \/ \E statuscode \in ErrCodes, message \in ErrMessages :
           SendError(statuscode, message)
    \/ ErrReturn

ErrSpec == ErrInit /\ [][ErrNext]_vars

-----------------------------------------------------------------------------
(* Vocabulary of the properties *)

CorsOutcomes == { "PreflightResponded", "Rejected400", "Rejected405" }

TerminalOutcomes ==
    CorsOutcomes \cup { "Rejected429", "InternalError500", "UpstreamError500",
                        "Relayed" }

Contains(seq, x) == \E i \in 1..Len(seq) : seq[i] = x

NoDuplicates(seq) ==
    \A i, j \in 1..Len(seq) : i # j => seq[i] # seq[j]

\* OPTIONS with Origin set.
IsPreflight(r) == r.method = "OPTIONS" /\ r.origin # << >>

\* The entries of the allow-list: split on ';', trimmed, empties dropped.
ListedOrigins(allowed) ==
    LET parts == Split(allowed, ";")
    IN  { TrimSpace(parts[i]) : i \in 1..Len(parts) } \ { << >> }

\* The values of Access-Control-Allow-Origin the origin-matching rule gives.
RuleACAO(origin, allowed) ==
    IF allowed = << "*" >> THEN << << "*" >> >>
    ELSE IF origin # << >> /\ origin \in ListedOrigins(allowed) THEN << origin >>
    ELSE << >>

\* The request was handed to the forwarder: signed once, sent once, as a GET.
SignedAndForwarded ==
    /\ upstreamCalls = 1
    /\ Contains(stages, "sign") /\ Contains(stages, "forward")
    /\ out.built /\ out.method = "GET"
    /\ outcome \in { "UpstreamError500", "Relayed" }

-----------------------------------------------------------------------------
(* The claims *)

\* C1: with rate limiting enabled, the rate limiter sees a request only after
\* the CORS gate let it continue: a request that ends as a preflight reply or
\* as a CORS rejection (400, 405) has consumed no token, and a request the
\* CORS gate would end is never answered 429.
C1_RateLimitOnlyAfterCorsGate ==
    flags.ratelimit =>
        /\ outcome \in CorsOutcomes => consumed = 0
        /\ outcome = "Rejected429" =>
               CorsGate(req, flags.allowedorigins).kind = "continue"

\* C2: a request that ends as a preflight 200, a 400, a 405 or a 429 has
\* caused no upstream request; an upstream request is issued only for a
\* request the CORS gate let continue and, with rate limiting enabled, the
\* limiter admitted.
C2_NoUpstreamCallUnlessAdmitted ==
    /\ outcome \in CorsOutcomes \cup { "Rejected429" } =>
           upstreamCalls = 0 /\ out = NoAPIRequest
    /\ upstreamCalls > 0 =>
           /\ CorsGate(req, flags.allowedorigins).kind = "continue"
           /\ flags.ratelimit => consumed = 1

C2_Witness ==
    /\ pc = "Done"
    /\ outcome = "Rejected405"
    /\ flags.ratelimit
    /\ upstreamCalls = 0

\* The status each outcome writes (a relayed status is the upstream's).
StatusOf(o) ==
    CASE o = "PreflightResponded" -> { StatusOK }
      [] o = "Rejected400" -> { StatusBadRequest }
      [] o = "Rejected405" -> { StatusMethodNotAllowed }
      [] o = "Rejected429" -> { StatusTooManyRequests }
      [] o = "InternalError500" -> { StatusInternalServerError }
      [] o = "UpstreamError500" -> { StatusInternalServerError }
      [] o = "Relayed" -> { u.status : u \in UpstreamResponses }
      [] OTHER -> { }

C3_StateOk ==
    /\ pc = "Received" => outcome = "" /\ stages = << >> /\ resp = NewRecorder
    /\ pc = "Done" <=> outcome \in TerminalOutcomes
    /\ pc # "Done" => outcome = "" /\ resp.writes = 0 /\ resp.status = 0
    /\ pc = "Done" => resp.writes = 1 /\ resp.status \in StatusOf(outcome)
    /\ NoDuplicates(stages)

C3_StepOk ==
    outcome # "" =>
        \/ outcome' = outcome /\ stages' = stages /\ resp' = resp
                /\ upstreamCalls' = upstreamCalls
        \/ pc' = "Idle"

\* C3: every request starts in Received with nothing written and ends in
\* exactly one of the six terminal outcomes; exactly one status code is
\* written, no stage runs twice, and nothing runs after the terminal outcome.
C3_OneTerminalOutcome == []C3_StateOk /\ [][C3_StepOk]_vars

C3_Witness ==
    /\ pc = "Done"
    /\ outcome = "Relayed"
    /\ stages = << "rate", "cors", "sign", "forward" >>
    /\ resp.writes = 1

\* A preflight as the browser sends it: Access-Control-Request-Method is GET
\* and Access-Control-Request-Headers is absent or x-summon-session-id.
WellFormedPreflight(r) ==
    /\ IsPreflight(r)
    /\ r.acrMethod = "GET"
    /\ r.acrHeaders \in { "", "x-summon-session-id" }

\* C4: a well-formed preflight is answered 200 with an empty body, the three
\* fixed CORS headers and Access-Control-Allow-Origin as the origin-matching
\* rule gives it.
C4_WellFormedPreflightGets200 ==
    pc = "Done" /\ WellFormedPreflight(req) =>
        /\ outcome = "PreflightResponded"
        /\ resp.status = StatusOK
        /\ resp.body = << >>
        /\ resp.headers[ACAM] = << "GET" >>
        /\ resp.headers[ACAH] = << "x-summon-session-id" >>
        /\ resp.headers[ACMA] = << "604800" >>
        /\ resp.headers[ACAO] = RuleACAO(req.origin, flags.allowedorigins)

\* C5: a preflight without Access-Control-Request-Method is answered 400,
\* the body carrying the "should be set" message, and is not forwarded.
C5_PreflightNoMethodGets400 ==
    pc = "Done" /\ IsPreflight(req) /\ req.acrMethod = "" =>
        /\ outcome = "Rejected400"
        /\ resp.status = StatusBadRequest
        /\ Contains(resp.body, "Access-Control-Request-Method header ")
        /\ Contains(resp.body, "should be set for OPTIONS request.")
        /\ upstreamCalls = 0

\* C6: a preflight whose Access-Control-Request-Method is set but is not
\* exactly "GET" is answered 400, the body carrying "should only be GET.",
\* and is not forwarded.
C6_PreflightBadMethodGets400 ==
    pc = "Done" /\ IsPreflight(req) /\ req.acrMethod \notin { "", "GET" } =>
        /\ outcome = "Rejected400"
        /\ resp.status = StatusBadRequest
        /\ Contains(resp.body, "should only be GET.")
        /\ upstreamCalls = 0

\* C7: a preflight with Access-Control-Request-Method GET whose
\* Access-Control-Request-Headers is set and is not x-summon-session-id is
\* answered 400, the body carrying "should only contain
\* x-summon-session-id.", and is not forwarded.
C7_PreflightBadHeadersGets400 ==
    pc = "Done" /\ IsPreflight(req) /\ req.acrMethod = "GET"
                /\ req.acrHeaders \notin { "", "x-summon-session-id" } =>
        /\ outcome = "Rejected400"
        /\ resp.status = StatusBadRequest
        /\ Contains(resp.body, "should only contain x-summon-session-id.")
        /\ upstreamCalls = 0

\* C8: a request with Origin set whose method is neither OPTIONS nor GET is
\* answered 405, the body carrying "Only GET requests accepted.", whatever
\* its path and query, and is not forwarded.
C8_OtherVerbGets405 ==
    pc = "Done" /\ req.origin # << >> /\ req.method \notin { "OPTIONS", "GET" } =>
        /\ outcome = "Rejected405"
        /\ resp.status = StatusMethodNotAllowed
        /\ Contains(resp.body, "Only GET requests accepted.")
        /\ upstreamCalls = 0

\* C9: a GET with Origin set is never ended by the CORS gate; once past the
\* limiter it carries Access-Control-Allow-Origin as the origin-matching rule
\* gives it (absent when nothing matches) and is signed and forwarded.
C9_GetWithOriginContinues ==
    req.method = "GET" /\ req.origin # << >> =>
        /\ outcome \notin CorsOutcomes
        /\ pc \in { "Continue", "Forwarded" } \/ (pc = "Done" /\ outcome # "Rejected429") =>
               resp.headers[ACAO] = RuleACAO(req.origin, flags.allowedorigins)
        /\ pc = "Done" /\ outcome # "Rejected429" => SignedAndForwarded

C9_Witness ==
    /\ pc = "Done"
    /\ req.method = "GET"
    /\ req.origin = << "A" >>
    /\ flags.allowedorigins = << "a", ";", " ", "b", ";" >>
    /\ resp.headers[ACAO] = << >>
    /\ outcome = "Relayed"
    /\ upstreamCalls = 1

OriginRuleRan ==
    /\ req.origin # << >>
    /\ \/ outcome = "PreflightResponded"
       \/ /\ req.method = "GET"
          /\ pc \in { "Continue", "Forwarded" }
                \/ (pc = "Done" /\ outcome # "Rejected429")

\* C11: when the allow-list is the wildcard "*", the origin-matching rule sets
\* Access-Control-Allow-Origin to the literal "*" whatever the request's
\* Origin, and never to the Origin value.
C11_WildcardGivesStar ==
    flags.allowedorigins = << "*" >> =>
        /\ OriginRuleRan => resp.headers[ACAO] = << << "*" >> >>
        /\ \A o \in Origins :
               setACAOHeader(NoHeaders, [ origin |-> o ], flags.allowedorigins)[ACAO]
                   = << << "*" >> >>

C11_Witness ==
    /\ flags.allowedorigins = << "*" >>
    /\ req.origin = << "a" >>
    /\ outcome = "Relayed"
    /\ resp.headers[ACAO] = << << "*" >> >>

\* C12: when the allow-list is not the wildcard, Access-Control-Allow-Origin
\* is set iff the request's Origin equals, byte for byte, one of the
\* non-empty trimmed ';'-separated entries, and it is set to that entry; an
\* empty list, an unmatched Origin or a missing Origin leaves it unset.
C12_ListedOriginEchoed ==
    flags.allowedorigins # << "*" >> =>
        /\ OriginRuleRan =>
               resp.headers[ACAO] =
                   IF req.origin \in ListedOrigins(flags.allowedorigins)
                   THEN << req.origin >> ELSE << >>
        /\ \A o \in Origins :
               LET h == setACAOHeader(NoHeaders, [ origin |-> o ], flags.allowedorigins)
               IN  /\ h[ACAO] # << >> <=>
                          o # << >> /\ o \in ListedOrigins(flags.allowedorigins)
                   /\ h[ACAO] # << >> => h[ACAO] = << o >>
        /\ req.origin = << >> \/ flags.allowedorigins = << >> =>
               resp.headers[ACAO] = << >>

\* The Origin matches the entry " b" of the list once it is trimmed.
C12_Witness ==
    /\ flags.allowedorigins = << "a", ";", " ", "b", ";" >>
    /\ req.origin = << "b" >>
    /\ outcome = "PreflightResponded"
    /\ resp.headers[ACAO] = << << "b" >> >>

\* C13: signing is deterministic and stateless: the Authorization header of
\* the API request is the one the signer gives for the same accessID,
\* secretKey, accept, timestamp, host, path and query under every order in
\* which the query parameters can be iterated, whatever requests were
\* signed before.
C13_SigningDeterministic ==
    out.built =>
        \A order \in KeyOrders(Query(out.url.rawQuery)) :
            out.authorization =
                << buildHeader(out.url, out.accept[1], out.date[1],
                               flags.accessid, flags.secretkey, order) >>

\* A query of two keys is signed after requests from both clients were seen.
C13_Witness ==
    /\ out.built
    /\ Cardinality(KeyOrders(Query(out.url.rawQuery))) = 2
    /\ clock > 0
    /\ DOMAIN buckets = RemoteAddrs

\* The inputs of the signer call that built the API request.
SignerInput ==
    [ secretKey |-> flags.secretkey, accept |-> out.accept[1],
      timestamp |-> out.date[1], host |-> out.url.host, path |-> out.url.path,
      rawQuery |-> out.url.rawQuery ]

\* The inputs that differ from cur in exactly one component.
OneChanged(cur) ==
    ( { [ cur EXCEPT !.secretKey = x ] : x \in SignSecrets }
      \cup { [ cur EXCEPT !.accept = x ] : x \in Accepts }
      \cup { [ cur EXCEPT !.timestamp = TimeFormat(t) ] : t \in 0..MaxClock }
      \cup { [ cur EXCEPT !.host = x ] : x \in SignHosts }
      \cup { [ cur EXCEPT !.path = x ] : x \in Paths }
      \cup { [ cur EXCEPT !.rawQuery = x ] : x \in SignRawQueries } ) \ { cur }

\* The digest part of the header the signer gives for an input.
DigestOf(i) ==
    LET u == [ host |-> i.host, path |-> i.path, rawQuery |-> i.rawQuery ]
        order == CHOOSE o \in KeyOrders(Query(i.rawQuery)) : TRUE
    IN  buildHeader(u, i.accept, i.timestamp, flags.accessid, i.secretKey, order)[4]

\* The string that was hashed, and the sorted query at its end.
CanonicalOf(i) == DigestOf(i)[3]
SortedQueryOf(i) == CanonicalOf(i)[9]

SignedQuery == out.authorization[1][4][3][9]

\* The (key, value) pairs of the query, as the signer reads them.
SignedPairs == Query(out.url.rawQuery)

\* C15: in the canonical string the query pairs are in byte-wise ascending
\* order of their keys, keys that are prefixes of one another included, and
\* joined with "&"; a key that occurs n times contributes n pairs.
C15_QuerySortedByKey ==
    out.built =>
        \E p \in [ 1..Len(SignedPairs) -> 1..Len(SignedPairs) ] :
            /\ \A i, j \in 1..Len(SignedPairs) : i # j => p[i] # p[j]
            /\ \A i \in 1..(Len(SignedPairs) - 1) :
                   ~ StrLess(SignedPairs[p[i+1]][1], SignedPairs[p[i]][1])
            /\ SignedQuery =
                   Join([ i \in 1..Len(SignedPairs) |->
                            QueryStrings(SignedPairs)[p[i]] ], "&")

\* C16: the pairs of the canonical query string are the tokens of the inbound
\* raw query as they were received (no percent-decoding, no '+' conversion,
\* no re-encoding), so the signed query is the raw query sent upstream up to
\* the order of its pairs.
C16_QuerySignedAsReceived ==
    out.built =>
        SortStrings(Split(SignedQuery, "&"))
            = SortStrings(Split(out.url.rawQuery, "&"))

\* The key=value strings of the query in ascending byte-wise order.
IsSortedQuery(sortedQuery, pairs) ==
    \E p \in [ 1..Len(pairs) -> 1..Len(pairs) ] :
        /\ \A i, j \in 1..Len(pairs) : i # j => p[i] # p[j]
        /\ \A i \in 1..(Len(pairs) - 1) :
               ~ StrLess(QueryStrings(pairs)[p[i+1]], QueryStrings(pairs)[p[i]])
        /\ sortedQuery = Join([ i \in 1..Len(pairs) |-> QueryStrings(pairs)[p[i]] ], "&")

\* C17: the Authorization header is "Summon " + accessID + ";" +
\* base64(HMAC-SHA1(secretKey, C)), C being accept, timestamp, upstream host,
\* upstream path and sorted query in that order, each followed by a newline;
\* for the published values (accessID test, the documented secret,
\* application/xml, Tue, 30 Jun 2009 12:10:24 GMT,
\* api.summon.serialssolutions.com, /2.0.0/search, s.q=forest and
\* s.ff=ContentType,or,1,15) it is "Summon test;3a4+j0Wrrx6LF8X4iwOLDetVOu4=".
C17_AuthorizationHeader ==
    /\ out.built =>
           LET header == out.authorization[1]
               C == header[4][3]
           IN  /\ Len(out.authorization) = 1 /\ Len(header) = 4 /\ Len(C) = 10
               /\ header[1] = "Summon "
               /\ header[2] = flags.accessid
               /\ header[3] = ";"
               /\ header[4][1] = "hmac-sha1"
               /\ header[4][2] = flags.secretkey
               /\ C[1] = req.accept
               /\ C[3] = out.date[1]
               /\ C[5] = ParseURL(flags.summonapi).host
               /\ C[7] = req.path
               /\ IsSortedQuery(C[9], SignedPairs)
               /\ \A i \in { 2, 4, 6, 8, 10 } : C[i] = "\n"
    /\ VectorHeaders = { VectorGoodHeader }

C17_Witness ==
    /\ out.built
    /\ out.url.rawQuery = << "b", "=", "2", "&", "a", "=", "1" >>
    /\ SignedQuery = << "a", "=", "1", "&", "b", "=", "2" >>
    /\ req.accept = "application/xml"
    /\ flags.summonapi = DefaultSummonAPIURL
    /\ VectorGoodHeader \in VectorHeaders

\* The key the limiter files the request under.
LimitedKey == ClientKey(req, IPLookups(flags.checkproxyheaders))

\* The step in which the limiter decides on the request.
LimiterDecides == pc = "Received" /\ pc' # "Received" /\ flags.ratelimit

C18_Step ==
    LimiterDecides /\ flags.maxrequests = 1 =>
        LET firstInWindow == LimitedKey \notin DOMAIN buckets
                                 \/ buckets[LimitedKey].last < clock
        IN  /\ firstInWindow =>
                   pc' = "Admitted" /\ consumed' = 1 /\ outcome' = ""
            /\ ~ firstInWindow =>
                   /\ pc' = "Done" /\ outcome' = "Rejected429"
                   /\ resp'.status = StatusTooManyRequests
                   /\ consumed' = 0
            /\ \A k \in DOMAIN buckets \ { LimitedKey } : buckets'[k] = buckets[k]

ExpectedKey(r, trustProxyHeaders) ==
    IF ~ trustProxyHeaders THEN r.remoteAddr
    ELSE IF r.xForwardedFor # "" THEN r.xForwardedFor
    ELSE IF r.xRealIP # "" THEN r.xRealIP
    ELSE r.remoteAddr

C20_Step ==
    LimiterDecides =>
        LET key == ExpectedKey(req, flags.checkproxyheaders)
        IN  /\ key \in DOMAIN buckets'
            /\ buckets'[key].last = clock
            /\ \A k \in DOMAIN buckets' \ { key } :
                   k \in DOMAIN buckets /\ buckets'[k] = buckets[k]

AdmittedFor(k) ==
    Cardinality({ w \in Workers : pc[w] = "Admitted" /\ KeyOf(w) = k })

\* The tokens key k's bucket has been given up to the time it was last
\* refilled: a full bucket, and the rate for every second since.
TokensGiven(k) == Burst(flags.maxrequests) + buckets[k].last * flags.maxrequests

\* The bucket of k holds no debt, and what was taken from it and what it
\* holds is no more than it was given.
BucketSound(k) ==
    /\ buckets[k].tokens >= 0
    /\ AdmittedFor(k) + buckets[k].tokens <= TokensGiven(k)

\* The workers that moved in this step.
Movers == { w \in Workers : pc'[w] # pc[w] }

C19_Step ==
    /\ \A k \in DOMAIN buckets :
           /\ k \in DOMAIN buckets'
           /\ buckets'[k] # buckets[k] =>
                  \E w \in Movers : InLimiter(w) /\ KeyOf(w) = k
    /\ \A k \in DOMAIN buckets' \ DOMAIN buckets :
           \E w \in Movers : InLimiter(w) /\ KeyOf(w) = k
    /\ \A k \in DOMAIN buckets' : BucketSound(k)'
    /\ \A w \in Movers : pc'[w] = "Admitted" =>
           /\ buckets[KeyOf(w)].tokens >= 1
           /\ buckets'[KeyOf(w)].tokens = buckets[KeyOf(w)].tokens - 1

\* C19: under any interleaving of the workers, a bucket is only changed by a
\* worker that holds it; no bucket goes below zero and the requests admitted
\* under a key never outnumber the tokens its bucket was given; a request
\* is admitted only when its bucket holds a token, which it takes.
C19_AtomicCheckAndConsume == [][C19_Step]_vars

\* Two workers with the same key met at the limiter with one token in the
\* bucket: one was admitted and the other answered 429.
C19_Witness ==
    /\ \E v, w \in Workers :
           /\ v # w /\ KeyOf(v) = KeyOf(w)
           /\ pc[v] = "Admitted" /\ pc[w] = "Done"
           /\ outcome[w] = "Rejected429"
           /\ buckets[KeyOf(v)] = [ tokens |-> 0, last |-> clock ]
    /\ flags.maxrequests = 1

\* The API URL of the configuration, parsed.
UpstreamBase == ParseURL(flags.summonapi)

\* C21 as stated: every outbound request has the method GET, and its target
\* is the API URL followed by the inbound path, with the inbound query.
C21_OutboundTarget ==
    out.built =>
        /\ out.method = "GET"
        /\ out.url.scheme = UpstreamBase.scheme
        /\ out.url.host = UpstreamBase.host
        /\ out.url.path = UpstreamBase.path \o req.path
        /\ out.url.rawQuery = req.rawQuery

\* The timestamp line of the string the signer hashed for the API request.
SignedTimestamp == out.authorization[1][4][3][3]

\* C22: an API request carries exactly one x-summon-date value, a reading of
\* the clock no later than now, and the signer hashed that same value.
C22_OneTimestamp ==
    out.built =>
        /\ Len(out.date) = 1
        /\ \E t \in 0 .. clock : out.date[1] = TimeFormat(t)
        /\ SignedTimestamp = out.date[1]

\* An API request sent at second 1 is still waiting at second 2, with the
\* timestamp of second 1 in the header and in the signature.
C22_Witness ==
    /\ pc = "Forwarded"
    /\ clock = 2
    /\ out.date = << TimeFormat(1) >>
    /\ SignedTimestamp = TimeFormat(1)

\* C23: the API request has an x-summon-session-id header exactly when the
\* inbound request has a non-empty one, and then that one value.
C23_SessionIdCopied ==
    out.built =>
        /\ out.sessionID # << >> <=> req.sessionID # ""
        /\ out.sessionID # << >> => out.sessionID = << req.sessionID >>

\* An API request went out for a client that sent no session id, without
\* the header.
C23_Witness ==
    /\ out.built
    /\ req.sessionID = ""
    /\ out.sessionID = << >>
    /\ pc = "Forwarded"

\* The request with another Accept value in place of its own.
WithAccept(r, a) == [ r EXCEPT !.accept = a ]

C24_Step ==
    /\ stages' = Append(stages, "cors") =>
           \A a \in FwdAccepts :
               CorsGate(WithAccept(req, a), flags.allowedorigins)
                   = CorsGate(req, flags.allowedorigins)
    /\ pc = "Continue" /\ pc' # "Continue" =>
           /\ pc' = "Forwarded"
           /\ out'.accept = << req.accept >>
           /\ out'.authorization[1][4][3][1] = req.accept

\* C24: what the handler decides before it builds the API request is the
\* same for every Accept value, an empty one included; every request that
\* comes through is forwarded, with the inbound Accept value as the one
\* Accept header of the API request and as the first line of the string the
\* signer hashes.
C24_AcceptPassedThrough == [][C24_Step]_vars

\* A request with an Accept value the API does not document was forwarded
\* with it.
C24_Witness ==
    /\ pc = "Forwarded"
    /\ req.accept = "text/html"
    /\ out.accept = << "text/html" >>
    /\ out.authorization[1][4][3][1] = "text/html"

\* The body sendError writes for a failed client.Do.
SendFailedBody(err) ==
    << "<html><head></head><body><pre>", "500", " ", "Internal Server Error",
       " - ", "Error sending API Request: ", err, "</pre></body></html>" >>

C25_StateOk ==
    /\ upstreamCalls <= 1
    /\ pc = "Forwarded" => upstreamCalls = 1

C25_StepOk ==
    pc = "Forwarded" /\ pc' # "Forwarded" /\ outcome' # "Relayed" =>
        /\ pc' = "Done"
        /\ resp'.status = StatusInternalServerError
        /\ \E err \in FwdTransportErrors : resp'.body = SendFailedBody(err)
        /\ upstreamCalls' = upstreamCalls
        /\ out' = out

OwnHeaderNames == { ACAO, ACAM, ACAH, ACMA }

C26_StateOk ==
    apiResp.received =>
        LET answer == apiResp.response
        IN  /\ resp.status = answer.status
            /\ resp.headers[ContentType] =
                   IF answer.header[ContentType] # ""
                   THEN << answer.header[ContentType] >> ELSE << >>
            /\ \A n \in RespHeaderNames \ (OwnHeaderNames \cup { ContentType }) :
                   resp.headers[n] = << >>

C26_StepOk ==
    apiResp'.received /\ ~ apiResp.received =>
        \A n \in OwnHeaderNames : resp'.headers[n] = resp.headers[n]

\* C26: once the upstream has answered, the client response has the
\* upstream's status, whatever it is; of the upstream's headers it has
\* Content-Type, if the upstream sent one, and no other; the headers the
\* handler set itself are as they were.
C26_StatusAndContentTypeOnly == []C26_StateOk /\ [][C26_StepOk]_vars

\* A 503 with a Content-Type and a cookie was relayed to a client that had
\* sent an Origin: 503, the Content-Type, the handler's own header, no cookie.
C26_Witness ==
    /\ apiResp.received
    /\ apiResp.response.status = 503
    /\ apiResp.response.header[SetCookie] = "sid=1"
    /\ resp.status = 503
    /\ resp.headers[ContentType] = << "application/xml" >>
    /\ resp.headers[ACAO] = << "*" >>
    /\ resp.headers[SetCookie] = << >>

C27_StateOk ==
    /\ apiResp.received => apiResp.closes = 1
    /\ pc \in { "Idle", "Received", "Admitted", "Continue", "Forwarded" } =>
           ~ apiResp.received
    /\ outcome = "Relayed" => apiResp.received
    /\ outcome = "UpstreamError500" => ~ apiResp.received

C27_StepOk ==
    apiResp.received /\ pc' # "Idle" => apiResp' = apiResp

\* C27: whenever the handler has got an upstream response, it has closed
\* its body once by the time it returns, however much of the body the client
\* took, and it does not close it again; it gets a response only from a
\* client.Do that succeeded, and holds none when client.Do failed.
C27_BodyClosedOnce == []C27_StateOk /\ [][C27_StepOk]_vars

\* The client took the first piece of the body and not the second; the body
\* was closed.
C27_Witness ==
    /\ pc = "Done"
    /\ apiResp.received
    /\ resp.body = << "<response>" >>
    /\ apiResp.closes = 1

\* C28 as stated: a request whose API request has been sent does not stay
\* there for ever; its handler returns.
C28_ForwardedTerminates == (pc = "Forwarded") ~> (pc = "Done")

\* The same for the requests sent under a deadline.
C28_ForwardedWithDeadlineTerminates ==
    (pc = "Forwarded" /\ out.deadline # 0) ~> (pc = "Done")

\* The outcomes in which the proxy answers with an error of its own.
ErrorOutcomes ==
    { "Rejected400", "Rejected405", "Rejected429", "InternalError500",
      "UpstreamError500" }

\* What sendError writes as the body.
SendErrorBody(code, status, message) ==
    << "<html><head></head><body><pre>", code, " ", status, " - " >>
        \o message \o << "</pre></body></html>" >>

\* The error bodies a request r can be answered with under the
\* configuration f: the gate's, the limiter's, the forwarder's.
ErrorBodies(f, r) ==
    LET g == CorsGate(r, f.allowedorigins)
    IN  (IF g.kind = "error" /\ g.code = StatusBadRequest
         THEN { SendErrorBody("400", "Bad Request", g.message) } ELSE { })
        \cup (IF g.kind = "error" /\ g.code = StatusMethodNotAllowed
              THEN { SendErrorBody("405", "Method Not Allowed", g.message) }
              ELSE { })
        \cup (IF f.ratelimit THEN { << >> } ELSE { })
        \cup (IF ParseURL(f.summonapi).err
              THEN { SendErrorBody("500", "Internal Server Error",
                                   << "Unable to parse API URL." >>) }
              ELSE { SendFailedBody(err) : err \in FwdTransportErrors })

\* The configuration with another secret key.
WithSecret(f, k) == [ f EXCEPT !.secretkey = k ]

C29_StateOk ==
    outcome \in ErrorOutcomes =>
        /\ resp.status \in { StatusBadRequest, StatusMethodNotAllowed,
                              StatusTooManyRequests, StatusInternalServerError }
        /\ ~ Contains(resp.body, flags.secretkey)
        /\ \A k \in SignSecrets : resp.body \in ErrorBodies(WithSecret(flags, k), req)
        /\ \A k \in SignSecrets :
               ErrorBodies(WithSecret(flags, k), req) = ErrorBodies(flags, req)

\* Whether a step of the handler ends in an error is settled by the request,
\* the buckets and the configuration without its secret key.
C29_StepOk ==
    /\ stages' = Append(stages, "cors") =>
           (outcome' \in { "Rejected400", "Rejected405" }
                <=> CorsGate(req, flags.allowedorigins).kind = "error")
    /\ stages' = Append(stages, "rate") =>
           (outcome' = "Rejected429"
                <=> LimitReached(buckets, LimitedKey, clock, flags.maxrequests))
    /\ pc = "Continue" /\ pc' # "Continue" =>
           (outcome' = "InternalError500" <=> ParseURL(flags.summonapi).err)

\* C29: an error the proxy answers with has a body without the secret key
\* in it; the body is one the same request would get under any other secret
\* key, the rest of the configuration being the same; and whether the
\* request is answered with an error does not hang on the key either.
C29_ErrorBodiesKeepSecret == []C29_StateOk /\ [][C29_StepOk]_vars

\* A request that had been signed with the secret key was answered 500 after
\* a certificate error.
C29_Witness ==
    /\ outcome = "UpstreamError500"
    /\ out.built
    /\ out.authorization[1][4][2] = flags.secretkey
    /\ flags.secretkey = "another-secret"
    /\ resp.body = SendFailedBody("x509: certificate signed by unknown authority")

\* The process serves: main has passed its checks and has not exited.
Serving == pc \notin { "Starting", "Fatal" }

C30_StateOk ==
    /\ Serving =>
           /\ flags.accessid # ""
           /\ flags.secretkey # ""
           /\ ~ ParseURL(flags.summonapi).err
    /\ ~ Serving =>
           /\ req = NoRequest /\ resp = NewRecorder /\ out = NoAPIRequest
           /\ upstreamCalls = 0
    /\ out.built =>
           /\ out.authorization[1][2] # ""
           /\ out.authorization[1][4][2] # ""
    /\ outcome # "InternalError500"
    /\ ~ Contains(resp.body, "Unable to parse API URL.")

C30_StepOk ==
    /\ pc = "Fatal" => pc' = "Fatal"
    /\ pc' = "Starting" => pc = "Starting"
    /\ flags' = flags

\* C30: the process serves only with a non-empty access ID, a non-empty
\* secret key and an API URL that parses; otherwise it ends before any
\* request is taken, and stays ended; the settings never change; no API
\* request is signed with an empty credential, and no request is answered
\* "Unable to parse API URL.".
C30_ValidatedBeforeServing == []C30_StateOk /\ [][C30_StepOk]_vars

\* Started without a secret key, the process has ended and time goes on
\* without it.
C30_Witness ==
    /\ pc = "Fatal"
    /\ flags.accessid # ""
    /\ flags.secretkey = ""
    /\ ~ ParseURL(flags.summonapi).err
    /\ clock = MaxClock

-----------------------------------------------------------------------------
(* C31: requests handled at once share nothing they write *)

\* What client.Do can come back with.
ParResults ==
    { [ kind |-> "error", err |-> e ] : e \in ParTransportErrors }
    \cup { [ kind |-> "response", answer |-> a, written |-> n ] :
               a \in ParUpstreamResponses, n \in 0 .. 1 }

\* The response and the API request of request r handled alone from a fresh
\* ResponseWriter: signed at second t, with the query keys met in order
\* order and the upstream coming back with result.
Alone(f, r, t, order, result) ==
    LET g == HandlerGate(NewRecorder, r, f)
    IN  IF g.pc = "Done"
        THEN [ resp |-> g.resp, out |-> NoAPIRequest ]
        ELSE LET s == HandlerSend(g.resp, r, f, t, order)
             IN  IF s.pc = "Done"
                 THEN [ resp |-> s.resp, out |-> s.out ]
                 ELSE [ resp |-> IF result.kind = "error"
                                 THEN HandlerFailed(s.resp, result.err)
                                 ELSE HandlerRelay(s.resp, result.answer,
                                                   result.written),
                        out |-> s.out ]

\* What goroutine w holds of its own.
Locals(w) == << pc[w], req[w], resp[w], out[w], outcome[w], apiResp[w] >>

\* A finished request has the response and the API request it would have
\* had alone, whatever the other goroutines did meanwhile.
C31_StateOk ==
    \A w \in Workers :
        pc[w] = "Done" =>
            \E t \in 0 .. clock, result \in ParResults,
               order \in KeyOrders(Query(req[w].rawQuery)) :
                LET a == Alone(flags, req[w], t, order, result)
                IN  /\ resp[w] = a.resp
                    /\ out[w] = a.out

\* No step changes the flags, and no step changes what two goroutines hold.
C31_StepOk ==
    /\ flags' = flags
    /\ \A w, v \in Workers :
           (w # v /\ Locals(w)' # Locals(w)) => Locals(v)' = Locals(v)

\* C31: with rate limiting off, request handling never changes the
\* configuration, a step of one request's handling changes nothing another
\* request's handling holds, and every finished request has the status, the
\* response headers, the body and the upstream request it has when it is
\* handled alone, under every interleaving with the other requests.
C31_NoSharedMutableState == []C31_StateOk /\ [][C31_StepOk]_vars

\* A request was relayed while another one, of a different Origin and verb,
\* was waiting for the upstream, and both were let through the gate of an
\* allow-list that names only one of the two origins.
C31_Witness ==
    /\ ~flags.ratelimit
    /\ flags.allowedorigins # << "*" >>
    /\ pc[1] = "Done" /\ outcome[1] = "Relayed"
    /\ pc[2] = "Forwarded"
    /\ req[1].origin # req[2].origin
    /\ resp[1].headers[ACAO] # << >>

-----------------------------------------------------------------------------
(* C32: flag, then environment, then default *)

\* The value the precedence rule gives option o: the command line's if the
\* flag is on it, else the environment's if LORICA_<NAME> is not empty, else
\* the default.
EffectiveValue(o) ==
    IF o \in DOMAIN args
    THEN ValueSet(KindOf(o), args[o]).value
    ELSE IF environ[EnvName(o)] # << >>
    THEN ValueSet(KindOf(o), environ[EnvName(o)]).value
    ELSE DefaultOf(o)

\* Once the configuration is read, every option has the value of the rule.
C32_StateOk ==
    pc = "Configured" => \A o \in Options : flags[o] = EffectiveValue(o)

\* A flag that was set on the command line is not changed afterwards.
C32_StepOk ==
    \A o \in actual : flags'[o] = flags[o]

\* C32: when main has parsed the command line and read the environment,
\* each option has the command-line value if its flag was given, else the
\* value of LORICA_<UPPER-CASE NAME> if that variable is not empty, else its
\* default; and no step changes a flag that the command line set.
C32_FlagThenEnvThenDefault == []C32_StateOk /\ [][C32_StepOk]_vars

\* The configuration was read with a flag on the command line and a
\* different value for it in its environment variable.
C32_Witness ==
    /\ pc = "Configured"
    /\ \E o \in DOMAIN args :
          /\ environ[EnvName(o)] # << >>
          /\ ~ValueSet(KindOf(o), environ[EnvName(o)]).err
          /\ ValueSet(KindOf(o), environ[EnvName(o)]).value # flags[o]

-----------------------------------------------------------------------------
(* C33: what Log lets through *)

\* The lines of one message at each of the levels first .. last, in order.
LinesOfLevels(first, last, message) ==
    [ i \in 1 .. (last - first + 1) |-> LogLine(first + i - 1, message) ]

\* The step is the call in logCall': Set makes its level the level set and
\* writes nothing; Log leaves the level alone and adds the one line of its
\* message if the message's level is at or below the level set, nothing
\* otherwise; the five calls from error to trace add the lines of the levels
\* from error to the level set, and nothing else.
C33_StepOk ==
    /\ logCall'.fn = "Set" =>
          /\ logMessageLevel' = logCall'.level
          /\ logOutput' = logOutput
    /\ logCall'.fn = "Log" =>
          /\ logMessageLevel' = logMessageLevel
          /\ logCall'.level <= logMessageLevel =>
                 logOutput' = Append(logOutput,
                                     LogLine(logCall'.level, logCall'.message))
          /\ logCall'.level > logMessageLevel => logOutput' = logOutput
    /\ logCall'.fn = "LogEachLevel" =>
          /\ logMessageLevel' = logMessageLevel
          /\ logOutput' = logOutput \o LinesOfLevels(ErrorMessage, logMessageLevel,
                                                     logCall'.message)

\* C33: Log(messagelevel, m) writes a line exactly when messagelevel is at
\* or below the level most recently given to Set, in the order error < warn
\* < info < debug < trace; with level L set, one message logged at each of
\* the five levels leaves exactly the lines of the levels error to L.
C33_LogFiltersByLevel == [][C33_StepOk]_vars

\* With the info level set, the five messages were logged and three lines
\* written.
C33_Witness ==
    /\ logCall.fn = "LogEachLevel"
    /\ logMessageLevel = InfoMessage
    /\ logOutput = LinesOfLevels(ErrorMessage, InfoMessage, "x")

-----------------------------------------------------------------------------
(* C34: ParseLogLevel against LogLevel.String *)

\* A name of a level in upper or lower case, or in a mix of the two.
SpellsLevel(s, l) == ToLower(s) = ToLower(LevelString(l))

\* C34: ParseLogLevel returns the level and a nil error for the name of each
\* of the five levels in any case, and TraceMessage with a non-nil error for
\* any other string.
C34_ParseInverseOfString ==
    logCall.fn = "ParseLogLevel" =>
        /\ \A l \in LogLevels :
               SpellsLevel(logCall.parseThis, l) =>
                   logCall.level = l /\ logCall.err = << >>
        /\ (\A l \in LogLevels : ~SpellsLevel(logCall.parseThis, l)) =>
               logCall.level = TraceMessage /\ logCall.err # << >>

\* The claim for the strings of ASCII characters.
C34_ParseInverseOfStringAscii ==
    (logCall.fn = "ParseLogLevel"
        /\ \A i \in DOMAIN logCall.parseThis : logCall.parseThis[i] # "U+0131") =>
        /\ \A l \in LogLevels :
               SpellsLevel(logCall.parseThis, l) =>
                   logCall.level = l /\ logCall.err = << >>
        /\ (\A l \in LogLevels : ~SpellsLevel(logCall.parseThis, l)) =>
               logCall.level = TraceMessage /\ logCall.err # << >>

-----------------------------------------------------------------------------
(* C35: the values Access-Control-Allow-Origin can have *)

\* C35: the response's Access-Control-Allow-Origin is absent, or the one
\* value "*" under the wildcard allow-list, or the one value equal to the
\* Origin header of the request being answered; it is never another entry
\* of the allow-list, never the upstream's, and never has two values.
C35_AllowOriginStarOrOwnOrigin ==
    \/ resp.headers[ACAO] = << >>
    \/ /\ resp.headers[ACAO] = << << "*" >> >>
       /\ flags.allowedorigins = << "*" >>
    \/ /\ resp.headers[ACAO] = << req.origin >>
       /\ req.origin # << >>

\* A response was relayed with the request's Origin, the second entry of the
\* list, while the upstream's response had an Access-Control-Allow-Origin
\* of its own.
C35_Witness ==
    /\ outcome = "Relayed"
    /\ flags.allowedorigins = << "a", ";", " ", "b", ";" >>
    /\ req.origin = << "b" >>
    /\ resp.headers[ACAO] = << << "b" >> >>
    /\ apiResp.response.header[ACAO] # ""

-----------------------------------------------------------------------------
(* C36: a rejection grants nothing *)

CorsGrantHeaders == { ACAO, ACAM, ACAH, ACMA }

\* C36: a response that turns a request away at the CORS gate, with 400 or
\* with 405, has none of Access-Control-Allow-Origin, -Allow-Methods,
\* -Allow-Headers and -Max-Age, whatever the allow-list says of its Origin.
C36_RejectionCarriesNoGrant ==
    outcome \in { "Rejected400", "Rejected405" } =>
        /\ resp.status \in { StatusBadRequest, StatusMethodNotAllowed }
        /\ \A n \in CorsGrantHeaders : resp.headers[n] = << >>

\* A preflight of an Origin the allow-list allows was answered 400.
C36_Witness ==
    /\ outcome = "Rejected400"
    /\ req.origin # << >>
    /\ (req.origin \in ListedOrigins(flags.allowedorigins)
           \/ flags.allowedorigins = << "*" >>)

-----------------------------------------------------------------------------
(* C37: what is signed is what is sent *)

\* C37: the one Authorization header of an API request is the signer's
\* output, under every order of the query's keys, for the Accept value, the
\* x-summon-date value, the host, the path and the query of that same API
\* request, with the configured access id and secret key.
C37_SignedIsSent ==
    out.built =>
        /\ Len(out.authorization) = 1
        /\ Len(out.accept) = 1
        /\ Len(out.date) = 1
        /\ \A order \in KeyOrders(Query(out.url.rawQuery)) :
               out.authorization[1] =
                   buildHeader(out.url, out.accept[1], out.date[1],
                               flags.accessid, flags.secretkey, order)

\* An API request with a query of two keys is on its way to an API URL that
\* was configured with a path, signed at second 1.
C37_Witness ==
    /\ pc = "Forwarded"
    /\ flags.summonapi # DefaultSummonAPIURL
    /\ Len(Query(out.url.rawQuery)) = 2
    /\ out.date = << TimeFormat(1) >>
    /\ out.url.path = req.path

-----------------------------------------------------------------------------
(* C38: a preflight of an unlisted Origin *)

\* The Origin of request r is not allowed by the list: the list is not the
\* wildcard and has no entry equal to it.
UnlistedOrigin(r, allowed) ==
    /\ allowed # << "*" >>
    /\ r.origin \notin ListedOrigins(allowed)

\* The 200 reply of a preflight without Access-Control-Allow-Origin.
PreflightReplyWithoutOrigin ==
    /\ outcome = "PreflightResponded"
    /\ resp.status = StatusOK
    /\ resp.headers[ACAM] = << "GET" >>
    /\ resp.headers[ACAH] = << "x-summon-session-id" >>
    /\ resp.headers[ACMA] = << DefaultMaxAge >>
    /\ resp.headers[ACAO] = << >>

\* C38: a well-formed preflight whose Origin no entry of the allow-list
\* equals, the empty list included, is answered 200 with
\* Access-Control-Allow-Methods, -Allow-Headers and -Max-Age and without
\* Access-Control-Allow-Origin, and never with a 4xx.
C38_UnlistedPreflightStill200 ==
    (pc = "Done" /\ WellFormedPreflight(req)
        /\ UnlistedOrigin(req, flags.allowedorigins)) =>
        PreflightReplyWithoutOrigin

\* The same for the preflights that reach the CORS gate without the header
\* Access-Control-Request-Header, or with x-summon-session-id in it.
C38_UnlistedPreflightStill200AtGate ==
    (pc = "Done" /\ WellFormedPreflight(req)
        /\ UnlistedOrigin(req, flags.allowedorigins)
        /\ outcome # "Rejected429"
        /\ req.acrHeader \in { "", "x-summon-session-id" }) =>
        PreflightReplyWithoutOrigin

-----------------------------------------------------------------------------
(* C39: what sendError writes *)

\* The sequence part is a run of consecutive elements of whole.
IsInfix(part, whole) ==
    \E i \in 0 .. (Len(whole) - Len(part)) :
        SubSeq(whole, i + 1, i + Len(part)) = part

\* What the claim says of the response of sendError(w, statuscode, message).
SendErrorWrote(w, statuscode, message) ==
    /\ w.status = statuscode
    /\ w.headers[ContentType] = << "text/html; charset=utf-8" >>
    /\ IsInfix(message, w.body)

=============================================================================
